---- MODULE Spec2Model ----
(***************************************************************************)
(* BookStackClient (packages/core/src/bookstack-client.ts): the request    *)
(* executor with its 429 retry loop, the two identifier caches             *)
(* (bookSlugCache, pageInfoCache) and the response enrichment, run on a    *)
(* single-threaded event loop.  One step of the model is one event-loop    *)
(* task: an operation being invoked, a fetch settling, or a timer firing,  *)
(* together with the synchronous continuation it triggers, which runs      *)
(* until every promise chain is suspended on a fetch or a timer again.     *)
(***************************************************************************)
EXTENDS Integers, Sequences, FiniteSets, TLC

(* ------------------------------ bounds --------------------------------- *)
MaxCalls == 2
MaxList == 2
MaxBook == 2
MaxPage == 2
MaxEdits == 1

(* ------------------------- program constants -------------------------- *)
DefaultTimeout == 30000
FormTimeout == 120000
DefaultRetries == 3
DefaultRetryAfter == 10
CountCap == 500
RecentCap == 100

BookIds == 1..MaxBook
PageIds == 1..MaxPage
CallIds == 1..MaxCalls

\* slugs the remote may hold; "" is a blank slug
Slugs == {"", "guide", "intro"}

Undefined == -1
NaN == -2

VARIABLES
    env,             \* process.env.BOOKSTACK_ENABLE_WRITE of the server process
    server,          \* the tools registered with the McpServer
    enableWrite,     \* BookStackClient.enableWrite
    bookSlugCache,   \* BookStackClient.bookSlugCache : Map<number, string>
    pageInfoCache,   \* BookStackClient.pageInfoCache : Map<number, {slug, bookId}>
    remoteBooks,     \* the remote platform: book id -> slug
    remotePages,     \* the remote platform: page id -> [slug, book_id]
    edits,           \* number of remote changes made so far by other users
    changed,         \* the records renamed since the client was constructed
    calls,           \* the operation calls made on the client
    timers,          \* pending abort timers (setTimeout(() => controller.abort()))
    subject,         \* a record handed to an enhance function: its texts and dates
    derived          \* the fields the enhance function has derived from it

vars == <<env, server, enableWrite, bookSlugCache, pageInfoCache, remoteBooks, remotePages,
          edits, changed, calls, timers, subject, derived>>

(* ------------------------------ texts --------------------------------- *)
\* A body text is either the serialization of a JSON value or other text.
Ser(v) == [t |-> "json", v |-> v]
Str(s) == [t |-> "raw", s |-> s]

\* String.prototype.trim() on the texts of the model
Trim(text) ==
    IF text.t = "raw" /\ text.s \in {"", " ", "\n"} THEN Str("") ELSE text

\* JSON.parse: the value a serialization stands for, a SyntaxError otherwise
JSONParse(text) ==
    IF text.t = "json" THEN [ok |-> TRUE, v |-> text.v] ELSE [ok |-> FALSE]

\* String(id); a missing property reads as undefined
String(n) == IF n = Undefined THEN "undefined" ELSE ToString(n)

\* parseInt(s, 10) on the header values of the model
ParseInt(s) ==
    CASE s = "0" -> 0
      [] s = "1" -> 1
      [] s = "2" -> 2
      [] s = "10" -> 10
      [] OTHER -> NaN

(* --------------------------- JSON values ------------------------------ *)
JEntity(e) == [k |-> "entity", e |-> e]
JList(l) == [k |-> "list", data |-> l]
JMessage(m) == [k |-> "message", message |-> m]
JObject == [k |-> "object"]
JNull == [k |-> "null"]
JUndefined == [k |-> "undefined"]
JText(t) == [k |-> "text", text |-> t]

Rec(type, id, slug, book_id, uploaded_to) ==
    [type |-> type, id |-> id, slug |-> slug, book_id |-> book_id,
     uploaded_to |-> uploaded_to]

(* ----------------------------- results -------------------------------- *)
Ok(v) == [k |-> "ok", v |-> v]
Throw(e) == [k |-> "throw", e |-> e]
Pending == [k |-> "pending"]

\* new Error(message) with the optional status and response properties
PlainError(name, message) ==
    [name |-> name, message |-> message, status |-> Undefined,
     response |-> [status |-> Undefined, data |-> Str("")]]

WriteDisabledMessage ==
    <<Str("Write operations are disabled"),
      Str(". Set BOOKSTACK_ENABLE_WRITE=true to enable.")>>

\* String.prototype.includes on messages (sequences of text pieces)
Includes(msg, piece) == \E i \in 1..Len(msg) : msg[i] = piece

(* --------------------------- operations ------------------------------- *)
\* The public operations of BookStackClient, by what they do.
\*   gated  : the operation starts with the enableWrite check
\*   method : HTTP verb of the operation's own request
\*   coll   : collection segment of the path
\*   byId   : the path ends in /<id>
\*   shape  : "single" | "list" | "search" | "recent" | "export" | "upload"
\*   enrich : which enhancement is applied to the record(s) returned
Op(gated, method, coll, byId, shape, enrich) ==
    [gated |-> gated, method |-> method, coll |-> coll, byId |-> byId,
     shape |-> shape, enrich |-> enrich]

ReadOps ==
    {"getBook", "getPage", "getChapter", "getShelf", "getAttachment",
     "getComment", "getUser", "getImage", "getSystemInfo",
     "getBooks", "getPages", "getChapters", "getShelves", "getAttachments",
     "getComments", "getUsers", "getAuditLog", "getRecycleBin",
     "getImageGallery", "searchContent", "searchPages", "getRecentChanges",
     "exportPage", "exportBook", "exportChapter"}

WriteOps ==
    {"createBook", "updateBook", "deleteBook",
     "createChapter", "updateChapter", "deleteChapter",
     "createPage", "updatePage", "deletePage",
     "createShelf", "updateShelf", "deleteShelf",
     "createAttachment", "uploadAttachment", "updateAttachment",
     "deleteAttachment",
     "createComment", "updateComment", "deleteComment"}

Ops == ReadOps \cup WriteOps

OpInfo(op) ==
    CASE op = "getBook"          -> Op(FALSE, "GET", "books", TRUE, "single", "book")
      [] op = "getPage"          -> Op(FALSE, "GET", "pages", TRUE, "single", "page")
      [] op = "getChapter"       -> Op(FALSE, "GET", "chapters", TRUE, "single", "chapter")
      [] op = "getShelf"         -> Op(FALSE, "GET", "shelves", TRUE, "single", "shelf")
      [] op = "getAttachment"    -> Op(FALSE, "GET", "attachments", TRUE, "single", "attachment")
      [] op = "getComment"       -> Op(FALSE, "GET", "comments", TRUE, "single", "none")
      [] op = "getUser"          -> Op(FALSE, "GET", "users", TRUE, "single", "none")
      [] op = "getImage"         -> Op(FALSE, "GET", "image-gallery", TRUE, "single", "none")
      [] op = "getSystemInfo"    -> Op(FALSE, "GET", "system", FALSE, "single", "none")
      [] op = "getBooks"         -> Op(FALSE, "GET", "books", FALSE, "list", "book")
      [] op = "getPages"         -> Op(FALSE, "GET", "pages", FALSE, "list", "page")
      [] op = "getChapters"      -> Op(FALSE, "GET", "chapters", FALSE, "list", "chapter")
      [] op = "getShelves"       -> Op(FALSE, "GET", "shelves", FALSE, "list", "shelf")
      [] op = "getAttachments"   -> Op(FALSE, "GET", "attachments", FALSE, "list", "attachment")
      [] op = "getComments"      -> Op(FALSE, "GET", "comments", FALSE, "list", "none")
      [] op = "getUsers"         -> Op(FALSE, "GET", "users", FALSE, "list", "none")
      [] op = "getAuditLog"      -> Op(FALSE, "GET", "audit-log", FALSE, "list", "none")
      [] op = "getRecycleBin"    -> Op(FALSE, "GET", "recycle-bin", FALSE, "list", "none")
      [] op = "getImageGallery"  -> Op(FALSE, "GET", "image-gallery", FALSE, "list", "none")
      [] op = "searchContent"    -> Op(FALSE, "GET", "search", FALSE, "search", "search")
      [] op = "searchPages"      -> Op(FALSE, "GET", "search", FALSE, "search", "search")
      [] op = "getRecentChanges" -> Op(FALSE, "GET", "search", FALSE, "recent", "search")
      [] op = "exportPage"       -> Op(FALSE, "GET", "pages", TRUE, "export", "none")
      [] op = "exportBook"       -> Op(FALSE, "GET", "books", TRUE, "export", "none")
      [] op = "exportChapter"    -> Op(FALSE, "GET", "chapters", TRUE, "export", "none")
      [] op = "createBook"       -> Op(TRUE, "POST", "books", FALSE, "single", "book")
      [] op = "updateBook"       -> Op(TRUE, "PUT", "books", TRUE, "single", "book")
      [] op = "deleteBook"       -> Op(TRUE, "DELETE", "books", TRUE, "single", "none")
      [] op = "createChapter"    -> Op(TRUE, "POST", "chapters", FALSE, "single", "chapter")
      [] op = "updateChapter"    -> Op(TRUE, "PUT", "chapters", TRUE, "single", "chapter")
      [] op = "deleteChapter"    -> Op(TRUE, "DELETE", "chapters", TRUE, "single", "none")
      [] op = "createPage"       -> Op(TRUE, "POST", "pages", FALSE, "single", "page")
      [] op = "updatePage"       -> Op(TRUE, "PUT", "pages", TRUE, "single", "page")
      [] op = "deletePage"       -> Op(TRUE, "DELETE", "pages", TRUE, "single", "none")
      [] op = "createShelf"      -> Op(TRUE, "POST", "shelves", FALSE, "single", "shelf")
      [] op = "updateShelf"      -> Op(TRUE, "PUT", "shelves", TRUE, "single", "shelf")
      [] op = "deleteShelf"      -> Op(TRUE, "DELETE", "shelves", TRUE, "single", "none")
      [] op = "createAttachment" -> Op(TRUE, "POST", "attachments", FALSE, "single", "attachment")
      [] op = "uploadAttachment" -> Op(TRUE, "POST", "attachments", FALSE, "upload", "attachment")
      [] op = "updateAttachment" -> Op(TRUE, "PUT", "attachments", TRUE, "single", "attachment")
      [] op = "deleteAttachment" -> Op(TRUE, "DELETE", "attachments", TRUE, "single", "none")
      [] op = "createComment"    -> Op(TRUE, "POST", "comments", FALSE, "single", "none")
      [] op = "updateComment"    -> Op(TRUE, "PUT", "comments", TRUE, "single", "none")
      [] op = "deleteComment"    -> Op(TRUE, "DELETE", "comments", TRUE, "single", "none")

ExportFormats == {"html", "pdf", "markdown", "plaintext", "zip"}

\* a gate that lets the deletions through
WriteGateExceptDelete(op, enabled) ==
    OpInfo(op).gated /\ ~enabled /\ OpInfo(op).method # "DELETE"

\* if (!this.enableWrite) throw new Error('Write operations are disabled. ...')
WriteGate(op, enabled) == OpInfo(op).gated /\ ~enabled

(* --------------------------- request() -------------------------------- *)
Path(coll, id, sub) == [coll |-> coll, id |-> id, sub |-> sub]

\* The query parameters of a list request, as URLSearchParams holds them:
\*   count     : the value of `count`, Undefined when the parameter is absent
\*   bracketed : the parameters filter[<key>]=<value>, as <<key, value>>
\*   filter    : the members of the JSON object sent as the one parameter
\*               `filter`, {} when that parameter is absent
Params(count, bracketed, filter) ==
    [count |-> count, bracketed |-> bracketed, filter |-> filter]

NoParams == Params(Undefined, {}, {})

\* the arguments of one request() / requestForm() call
Req(method, path, form, returnText, retries, timeout) ==
    [method |-> method, path |-> path, form |-> form,
     returnText |-> returnText, retries |-> retries, timeout |-> timeout,
     params |-> NoParams]

\* a fetch Response: status, the retry-after and content-type headers
\* ("" when the header is absent) and the body text
Response(status, retryAfter, ctype, text) ==
    [status |-> status, retryAfter |-> retryAfter, ctype |-> ctype, text |-> text]

\* Response.ok
ResOk(res) == res.status >= 200 /\ res.status <= 299

\* const timeout = options?.timeout ?? 30000   (120000 in requestForm)
TimeoutOf(req) ==
    IF req.timeout # Undefined THEN req.timeout
    ELSE IF req.form THEN FormTimeout ELSE DefaultTimeout

\* a test that takes the 5xx answers for rate limiting as well
IsRateLimitedOr5xx(res) == res.status = 429 \/ res.status >= 500

\* if (res.status === 429)
IsRateLimited(res) == res.status = 429

\* a retry budget that defaults to one retry less
RetriesLeftTwo(req) == IF req.retries = Undefined THEN 2 ELSE req.retries

\* const retriesLeft = options?._retries ?? 3
RetriesLeft(req) == IF req.retries = Undefined THEN DefaultRetries ELSE req.retries

\* a retry loop that the form submissions take part in as well
ShouldRetryForms(req, res) == res.status = 429 /\ RetriesLeft(req) > 0

\* if (res.status === 429) { ... if (retriesLeft > 0) { wait; recurse } }
\* requestForm has no such branch
ShouldRetry(req, res) == ~req.form /\ IsRateLimited(res) /\ RetriesLeft(req) > 0

\* parseInt(res.headers.get('retry-after') ?? '10', 10)
RetryAfter(res) ==
    ParseInt(IF res.retryAfter = "" THEN String(DefaultRetryAfter) ELSE res.retryAfter)

\* a delay that takes the header's seconds for milliseconds
RetryDelayUnscaled(res) == IF RetryAfter(res) < 1 THEN 1 ELSE RetryAfter(res)

\* setTimeout(resolve, retryAfter * 1000): a delay that is NaN or below 1 is 1 ms
RetryDelay(res) == IF RetryAfter(res) < 1 THEN 1 ELSE RetryAfter(res) * 1000

\* parsed.message of the parsed error body, "" when there is none
\* (JSON.parse failing and a property read on null are both caught)
ParsedMessage(text) ==
    LET p == JSONParse(text)
    IN  IF p.ok /\ p.v.k = "message" THEN p.v.message ELSE ""

\* an error that carries the message alone
HttpErrorWithoutStatus(res) ==
    [name |-> "Error",
     message |-> IF ParsedMessage(res.text) # ""
                 THEN <<Str(ParsedMessage(res.text))>> ELSE <<res.text>>,
     status |-> Undefined,
     response |-> [status |-> Undefined, data |-> Str("")]]

\* the error thrown for a response that is not ok
HttpError(res) ==
    [name |-> "Error",
     message |-> IF ParsedMessage(res.text) # ""
                 THEN <<Str(ParsedMessage(res.text))>> ELSE <<res.text>>,
     status |-> res.status,
     response |-> [status |-> res.status, data |-> res.text]]

\* a reading of an ok response that looks at the body before the content type
SuccessResultBlankFirst(req, res) ==
    IF req.returnText THEN Ok(JText(res.text))
    ELSE IF res.status = 204 \/ Trim(res.text) = Str("") THEN Ok(JUndefined)
    ELSE IF res.ctype # "" /\ res.ctype # "application/json" THEN Ok(JText(res.text))
    ELSE IF JSONParse(res.text).ok THEN Ok(JSONParse(res.text).v)
    ELSE Throw(PlainError("SyntaxError", <<Str("Unexpected token")>>))

\* what request() returns for an ok response
SuccessResult(req, res) ==
    IF req.returnText THEN Ok(JText(res.text))
    ELSE IF res.ctype # "" /\ res.ctype # "application/json" THEN Ok(JText(res.text))
    ELSE IF res.status = 204 \/ Trim(res.text) = Str("") THEN Ok(JUndefined)
    ELSE IF JSONParse(res.text).ok THEN Ok(JSONParse(res.text).v)
    ELSE Throw(PlainError("SyntaxError", <<Str("Unexpected token")>>))

\* what requestForm() returns for an ok response: res.json()
FormSuccessResult(res) ==
    IF JSONParse(res.text).ok THEN Ok(JSONParse(res.text).v)
    ELSE Throw(PlainError("SyntaxError", <<Str("Unexpected token")>>))

\* how a received response settles the call (when it is not retried)
Settle(req, res) ==
    IF ~ResOk(res) THEN Throw(HttpError(res))
    ELSE IF req.form THEN FormSuccessResult(res)
    ELSE SuccessResult(req, res)

(* ------------------------ threads of a call --------------------------- *)
\* One attempt (one fetch call) of a request() call: how long the call had
\* waited since the previous response when the fetch was issued and, once the
\* response is in, its status, retry-after and content-type headers and body.
Attempt(waited) ==
    [waited |-> waited, status |-> 0, retryAfter |-> "", ctype |-> "",
     text |-> Str("")]

\* an abort timer: the promise chain that armed it, the time left until it
\* fires, and whether the fetch it aborts is still in flight
Timer(c, k, left, live) == [c |-> c, k |-> k, left |-> left, live |-> live]

NoReq == Req("", Path("", 0, ""), FALSE, FALSE, Undefined, Undefined)
NoRec == Rec("", 0, "", 0, 0)

\* a continuation: the function that is suspended and its live locals
Frame(fn, rec, id, s) == [fn |-> fn, rec |-> rec, id |-> id, s |-> s]

\* A promise chain of a call: thread 1 is the operation itself, threads 2..
\* are the per-element tasks handed to Promise.all.
\*   st    : "fetch" (awaiting fetch), "sleep" (awaiting the retry delay),
\*           "join" (awaiting Promise.all), "spawn", "done"
\*   wake  : time left of the retry delay; slept: time spent in it so far
\*   hist  : the attempts of the request() call in progress
\*   last  : the arguments, the attempts and the outcome of the request()
\*           call settled last
\*   contextualInfo : the local of getRecentChanges' element task, "" until
\*           its try block has run
Thread(conts) ==
    [st |-> "spawn", req |-> NoReq, wake |-> 0, slept |-> 0, conts |-> conts,
     res |-> Pending, hist |-> <<>>, contextualInfo |-> "",
     last |-> [req |-> NoReq, hist |-> <<>>, res |-> Pending]]

(* -------------------------- the tool boundary ------------------------- *)
\* ToolResult: { content: [{ type: "text", text }], isError? }; the text is a
\* fixed sentence, an error's message, or the serialized result
ToolResult(isError, kind, s, message) ==
    [isError |-> isError, kind |-> kind, s |-> s, message |-> message]

NoToolResult == ToolResult(FALSE, "none", "", <<>>)

\* axios.isAxiosError(error): isObject(error) && error.isAxiosError === true
IsAxiosError(e) == "isAxiosError" \in DOMAIN e /\ e.isAxiosError = TRUE

\* sanitizeError(error): the text shown for a failure
SanitizeError(e) ==
    IF IsAxiosError(e)
    THEN LET status == e.response.status
         IN  CASE status \in {401, 403} ->
                    ToolResult(TRUE, "fixed",
                        "Authentication or permission error accessing BookStack.", <<>>)
               [] status = 404 ->
                    ToolResult(TRUE, "fixed",
                        "The requested content was not found in BookStack.", <<>>)
               [] status = 422 ->
                    ToolResult(TRUE, "validation", "Validation error: ", e.message)
               [] status = 429 ->
                    ToolResult(TRUE, "fixed",
                        "Rate limit exceeded. Please try again later.", <<>>)
               [] status # Undefined /\ status >= 500 ->
                    ToolResult(TRUE, "fixed",
                        "BookStack server error. Please try again later.", <<>>)
               [] OTHER -> ToolResult(TRUE, "fixed", "BookStack request failed.", <<>>)
    ELSE IF Includes(e.message, Str("Write operations are disabled"))
    THEN ToolResult(TRUE, "message", "", e.message)
    ELSE ToolResult(TRUE, "fixed", "An unexpected error occurred.", <<>>)

\* toolHandler(fn): try { return await fn(args) } catch (error) { return {
\* content: [{ type: "text", text: sanitizeError(error) }], isError: true } }
ToolHandler(r) ==
    IF r.k = "throw" THEN SanitizeError(r.e)
    ELSE ToolResult(FALSE, "result", "", <<>>)

\* The options of a list or search operation: count (limit for
\* getRecentChanges), the filter criteria as <<key, value>>, and the bookId,
\* chapterId and page_id arguments; Undefined and {} when not given.
Opts(count, filter, bookId, chapterId, pageId) ==
    [count |-> count, filter |-> filter, bookId |-> bookId,
     chapterId |-> chapterId, pageId |-> pageId]

NoOpts == Opts(Undefined, {}, Undefined, Undefined, Undefined)

\* A call of a public operation.
\*   th      : its promise chains;  order: its Promise.all tasks by completion
\*   items   : the elements its list request returned
\*   fetches : the fetch calls made for it;  methods: their HTTP verbs
\*   lookups : the getBookSlug / getPageInfo resolutions made for it
\*   after   : the calls that had settled when it was made
\*   opts    : the options it was called with
\*   tool    : what the tool handler around the call has returned
\*   via     : the tool the call was made through, "" for a direct call
\*   own     : what the operation's own request has returned, once it has
IdleCall ==
    [c |-> 0, op |-> "", id |-> 0, fmt |-> "", opts |-> NoOpts, th |-> <<>>,
     tool |-> NoToolResult, via |-> "", own |-> Pending, order |-> <<>>,
     items |-> <<>>, fetches |-> 0, methods |-> {}, lookups |-> <<>>,
     after |-> {}, res |-> Pending]

NewCall(c, op, id, fmt) ==
    [IdleCall EXCEPT !.c = c, !.op = op, !.id = id, !.fmt = fmt,
                     !.th = <<Thread(<<>>)>>,
                     !.after = {d \in CallIds : calls[d].res # Pending}]

\* The client while a continuation runs: the call the continuation belongs
\* to, the two caches, the pending abort timers.
Machine(call) ==
    [call |-> call, bc |-> bookSlugCache, pg |-> pageInfoCache, tm |-> timers]

Pop(m, k) == [m EXCEPT !.call.th[k].conts = Tail(@)]
Push(m, k, f) == [m EXCEPT !.call.th[k].conts = <<f>> \o @]

\* fetch(url, {method, headers, body, signal}) with its abort timer armed:
\*   const controller = new AbortController();
\*   const timeoutId = setTimeout(() => controller.abort(), timeout);
StartFetch(m, k, req, hist) ==
    [m EXCEPT !.call.th[k].st = "fetch",
              !.call.th[k].req = req,
              !.call.th[k].hist = Append(hist, Attempt(m.call.th[k].slept)),
              !.call.th[k].slept = 0,
              !.call.fetches = @ + 1,
              !.call.methods = @ \cup {req.method},
              !.tm = @ \cup {Timer(m.call.c, k, TimeoutOf(req), TRUE)}]

\* this.request(method, path, params, body, options) called afresh
Request(m, k, method, path, returnText) ==
    StartFetch(m, k, Req(method, path, FALSE, returnText, Undefined, Undefined), <<>>)

\* this.requestForm('/attachments', formData, { timeout: 120_000 })
RequestForm(m, k, path) ==
    StartFetch(m, k, Req("POST", path, TRUE, FALSE, Undefined, FormTimeout), <<>>)

(* ------------------------- values and urls ---------------------------- *)
SlugVal(s) == [k |-> "slug", s |-> s]
InfoVal(slug, bookId) == [k |-> "pageinfo", slug |-> slug, bookId |-> bookId]
UrlVal(u) == [k |-> "url", u |-> u]
Enriched(rec, url) == [k |-> "enriched", rec |-> rec, url |-> url]
EnrichedList(items) == [k |-> "enrichedList", items |-> items]

TypeError == PlainError("TypeError", <<Str("Cannot read properties of undefined")>>)

\* a property read throws on undefined and null
IsNullish(v) == v.k \in {"undefined", "null"}

\* the record a value is read as: properties a value lacks read as undefined
AsRecord(v) ==
    IF v.k = "entity" THEN v.e
    ELSE Rec("", Undefined, "", Undefined, Undefined)

BaseUrl == "https://docs.example.com"

\* a segment that is always the id
IdOnly(slug, id) == String(id)

\* `${x.slug || x.id}`
SlugOrId(slug, id) == IF slug # "" THEN slug ELSE String(id)

\* a falsy number: 0 or undefined
Falsy(n) == n = 0 \/ n = Undefined

GenerateBookUrl(book) == <<BaseUrl, "books", SlugOrId(book.slug, book.id)>>
GenerateShelfUrl(shelf) == <<BaseUrl, "shelves", SlugOrId(shelf.slug, shelf.id)>>
PageUrl(bookSlug, page) ==
    <<BaseUrl, "books", bookSlug, "page", SlugOrId(page.slug, page.id)>>
ChapterUrl(bookSlug, chapter) ==
    <<BaseUrl, "books", bookSlug, "chapter", SlugOrId(chapter.slug, chapter.id)>>
LinkUrl(id) == <<BaseUrl, "link", String(id)>>
AttachmentUrl(id) == <<BaseUrl, "attachments", String(id)>>

\* an enhancement that hands the record back as it came
EnhanceSyncRaw(kind, v) == Ok(v)

\* enhanceBookResponse / enhanceShelfResponse: no lookup, no suspension
EnhanceSync(kind, v) ==
    IF IsNullish(v) THEN Throw(TypeError)
    ELSE IF kind = "book" THEN Ok(Enriched(AsRecord(v), GenerateBookUrl(AsRecord(v))))
    ELSE Ok(Enriched(AsRecord(v), GenerateShelfUrl(AsRecord(v))))

(* ------------------------------ caches -------------------------------- *)
\* a cache that never finds an entry
CacheHasNothing(cache, id) == FALSE

\* Map.prototype.has / get / set
CacheHas(cache, id) == id \in DOMAIN cache
CacheGet(cache, id) == cache[id]
CacheSet(cache, id, val) ==
    [i \in DOMAIN cache \cup {id} |-> IF i = id THEN val ELSE cache[i]]

\* a catch branch that stores the fallback it returns
CacheFallback(cache, id, val) == CacheSet(cache, id, val)

\* the cache after the catch branch of a lookup (`catch { return String(id) }`):
\* the fallback is returned, the map is left as it is
CacheAfterCatch(cache, id, val) == cache

\* a lookup that takes the id for the slug whatever the fetch returned
BookSlugIgnoringData(data, bookId) == String(bookId)

\* getBookSlug, after the fetch: data.slug || String(bookId), stored and returned
BookSlugOf(data, bookId) == SlugOrId(AsRecord(data).slug, bookId)

\* getBookSlug, catch branch
BookSlugFallback(bookId) == String(bookId)

\* getPageInfo, after the fetch: { slug: data.slug || String(pageId), bookId: data.book_id }
PageInfoOf(data, pageId) ==
    [slug |-> SlugOrId(AsRecord(data).slug, pageId), bookId |-> AsRecord(data).book_id]

\* getPageInfo, catch branch
PageInfoFallback(pageId) == [slug |-> String(pageId), bookId |-> 0]

(* ------------------- lookups and address building --------------------- *)
RECURSIVE Resume(_, _, _)

\* One resolution of an id through a cache-backed lookup.
\*   hit   : served from the cache, without a fetch
\*   ok    : the value came from the cache or from a fetch that succeeded
\*   val   : the value returned ({slug, bookId}; bookId 0 for a book)
\*   raced : another lookup of the same id was in flight when it completed
\*   fresh : for a hit, what a fetch of the id would have produced then
\*   th    : the promise chain of the call that made the resolution
Lookup(kind, id, hit, ok, val, raced, fresh) ==
    [kind |-> kind, id |-> id, hit |-> hit, ok |-> ok, val |-> val,
     raced |-> raced, fresh |-> fresh, raised |-> FALSE, th |-> 0]

\* a resolution that ended in the outcome `out` of the lookup's catch branch
FailedLookup(kind, id, out) ==
    LET val == IF out.k = "throw" THEN [slug |-> "", bookId |-> 0]
               ELSE IF kind = "book" THEN [slug |-> out.v.s, bookId |-> 0]
               ELSE [slug |-> out.v.slug, bookId |-> out.v.bookId]
    IN  [Lookup(kind, id, FALSE, FALSE, val, FALSE, val)
            EXCEPT !.raised = (out.k = "throw")]

Logged(m, k, l) == [m EXCEPT !.call.lookups = Append(@, [l EXCEPT !.th = k])]

\* what the remote holds for an id, as the lookups would store it
FreshBook(bookId) ==
    [slug |-> IF bookId \in DOMAIN remoteBooks
              THEN SlugOrId(remoteBooks[bookId], bookId) ELSE String(bookId),
     bookId |-> 0]
FreshPage(pageId) ==
    IF pageId \in DOMAIN remotePages
    THEN [slug |-> SlugOrId(remotePages[pageId].slug, pageId),
          bookId |-> remotePages[pageId].book_id]
    ELSE [slug |-> String(pageId), bookId |-> 0]

\* the lookups of an id that are awaiting their fetch, as <<call, thread>>
InFlight(m, fn, id) ==
    {ck \in CallIds \X (1..(MaxList + 1)) :
        LET call == IF ck[1] = m.call.c THEN m.call ELSE calls[ck[1]]
        IN  /\ ck[2] <= Len(call.th)
            /\ call.th[ck[2]].st \in {"fetch", "sleep"}
            /\ call.th[ck[2]].conts # <<>>
            /\ Head(call.th[ck[2]].conts).fn = fn
            /\ Head(call.th[ck[2]].conts).id = id}

\* getBookSlug(bookId), up to its first suspension
GetBookSlug(m, k, bookId) ==
    IF CacheHas(m.bc, bookId)
    THEN Resume(Logged(m, k, Lookup("book", bookId, TRUE, TRUE,
                                 [slug |-> CacheGet(m.bc, bookId), bookId |-> 0],
                                 FALSE, FreshBook(bookId))),
                k, Ok(SlugVal(CacheGet(m.bc, bookId))))
    ELSE Request(Push(m, k, Frame("getBookSlug", NoRec, bookId, "")), k,
                 "GET", Path("books", bookId, ""), FALSE)

\* getPageInfo(pageId), up to its first suspension
GetPageInfo(m, k, pageId) ==
    IF CacheHas(m.pg, pageId)
    THEN Resume(Logged(m, k, Lookup("page", pageId, TRUE, TRUE, CacheGet(m.pg, pageId),
                                 FALSE, FreshPage(pageId))),
                k, Ok(InfoVal(CacheGet(m.pg, pageId).slug,
                              CacheGet(m.pg, pageId).bookId)))
    ELSE Request(Push(m, k, Frame("getPageInfo", NoRec, pageId, "")), k,
                 "GET", Path("pages", pageId, ""), FALSE)

GeneratePageUrlFromId(m, k, pageId) ==
    GetPageInfo(Push(m, k, Frame("generatePageUrlFromId", NoRec, pageId, "")), k, pageId)

GeneratePageUrl(m, k, page) ==
    GetBookSlug(Push(m, k, Frame("generatePageUrl", page, 0, "")), k, page.book_id)

GenerateChapterUrl(m, k, chapter) ==
    GetBookSlug(Push(m, k, Frame("generateChapterUrl", chapter, 0, "")), k, chapter.book_id)

GenerateContentUrl(m, k, result) ==
    CASE result.type \in {"page", "chapter"} ->
            IF ~Falsy(result.book_id)
            THEN GetBookSlug(Push(m, k, Frame("generateContentUrl", result, 0, "")),
                             k, result.book_id)
            ELSE Resume(m, k, Ok(UrlVal(LinkUrl(result.id))))
      [] result.type = "book" -> Resume(m, k, Ok(UrlVal(GenerateBookUrl(result))))
      [] result.type \in {"bookshelf", "shelf"} ->
            Resume(m, k, Ok(UrlVal(GenerateShelfUrl(result))))
      [] OTHER -> Resume(m, k, Ok(UrlVal(LinkUrl(result.id))))

EnhancePageResponse(m, k, v) ==
    IF IsNullish(v) THEN Resume(m, k, Throw(TypeError))
    ELSE GeneratePageUrl(Push(m, k, Frame("enhancePageResponse", AsRecord(v), 0, "")),
                         k, AsRecord(v))

EnhanceChapterResponse(m, k, v) ==
    IF IsNullish(v) THEN Resume(m, k, Throw(TypeError))
    ELSE GenerateChapterUrl(Push(m, k, Frame("enhanceChapterResponse", AsRecord(v), 0, "")),
                            k, AsRecord(v))

\* { ...attachment, page_url: await this.generatePageUrlFromId(attachment.uploaded_to), ... }
EnhanceAttachment(m, k, v) ==
    IF IsNullish(v) THEN Resume(m, k, Throw(TypeError))
    ELSE GeneratePageUrlFromId(Push(m, k, Frame("enhanceAttachment", AsRecord(v), 0, "")),
                               k, AsRecord(v).uploaded_to)

\* one element of enhanceSearchResults' Promise.all
EnhanceSearchResult(m, k, result) ==
    GenerateContentUrl(Push(m, k, Frame("enhanceSearchResult", result, 0, "")), k, result)

\* one element of getRecentChanges' Promise.all: the detail fetch in its try block
EnhanceRecentChange(m, k, result) ==
    IF result.type \in {"page", "book", "chapter"} /\ ~Falsy(result.id)
    THEN Request(Push(m, k, Frame("recentDetail", result, 0, "")), k, "GET",
                 Path(CASE result.type = "page" -> "pages"
                        [] result.type = "book" -> "books"
                        [] OTHER -> "chapters", result.id, ""), FALSE)
    ELSE EnhanceSearchResult(m, k, result)

(* ---------------------------- Promise.all ----------------------------- *)
\* the per-element task of a list operation, started by Array.prototype.map
SpawnChild(m, kind, item, k) ==
    LET m1 == [m EXCEPT !.call.th = Append(@, Thread(<<>>))]
    IN  CASE kind = "page" -> EnhancePageResponse(m1, k, JEntity(item))
          [] kind = "chapter" -> EnhanceChapterResponse(m1, k, JEntity(item))
          [] kind = "attachment" -> EnhanceAttachment(m1, k, JEntity(item))
          [] kind = "search" -> EnhanceSearchResult(m1, k, item)
          [] kind = "recent" -> EnhanceRecentChange(m1, k, item)

RECURSIVE SpawnAll(_, _, _, _)
SpawnAll(m, kind, items, i) ==
    IF i > Len(items) THEN m
    ELSE SpawnAll(SpawnChild(m, kind, items[i], i + 1), kind, items, i + 1)

\* the value Promise.all resolves with: element i is the result of task i
PromiseAllByCompletion(call) ==
    [i \in 1..(Len(call.th) - 1) |-> call.th[call.order[i] + 1].res.v]

PromiseAll(call) ==
    [i \in 1..(Len(call.th) - 1) |-> call.th[i + 1].res.v]

Children(call) == 2..Len(call.th)

\* await Promise.all(items.map(...)): resolves once every task has, rejects
\* as soon as one does
JoinChildren(m) ==
    LET rejected == {i \in 1..Len(m.call.order) :
                       m.call.th[m.call.order[i] + 1].res.k = "throw"}
        first == CHOOSE i \in rejected : \A j \in rejected : i <= j
    IN  IF rejected # {}
        THEN Resume([m EXCEPT !.call.th[1].st = "run"], 1,
                    m.call.th[m.call.order[first] + 1].res)
        ELSE IF \A i \in Children(m.call) : m.call.th[i].st = "done"
        THEN Resume([m EXCEPT !.call.th[1].st = "run"], 1,
                    Ok(EnrichedList(PromiseAll(m.call))))
        ELSE [m EXCEPT !.call.th[1].st = "join"]

\* a promise chain has run to its end
Finish(m, k, r) ==
    LET m1 == [m EXCEPT !.call.th[k].st = "done", !.call.th[k].res = r]
    IN  IF k = 1 THEN [m1 EXCEPT !.call.res = r, !.call.tool = ToolHandler(r)]
        ELSE LET m2 == [m1 EXCEPT !.call.order = Append(@, k - 1)]
             IN  IF m2.call.th[1].st = "join" THEN JoinChildren(m2) ELSE m2

(* --------------------------- the operations --------------------------- *)
\* Math.min(a, b)
Min(a, b) == IF a < b THEN a ELSE b

\* a ?? b
Nullish(a, b) == IF a = Undefined THEN b ELSE a

\* a number that is defined and not 0
Truthy(n) == ~Falsy(n)

\* for (const [k, v] of Object.entries(filter)) params[`filter[${k}]`] = String(v)
Bracketed(filter) == {<<kv[1], String(kv[2])>> : kv \in filter}

\* filter[key] = value on a filter object: the key's earlier value is replaced
WithKey(filter, key, value) ==
    {kv \in filter : kv[1] # key} \cup {<<key, value>>}

\* getPages: const filter = { ...options?.filter }; if (options?.bookId)
\* filter.book_id = ...; if (options?.chapterId) filter.chapter_id = ...
PagesFilter(opts) ==
    LET f1 == IF Truthy(opts.bookId) THEN WithKey(opts.filter, "book_id", opts.bookId)
              ELSE opts.filter
    IN  IF Truthy(opts.chapterId) THEN WithKey(f1, "chapter_id", opts.chapterId) ELSE f1

\* the query parameters the list and search operations build from their options
ListParams(op, opts) ==
    CASE op \in {"getBooks", "getShelves", "getAttachments", "getAuditLog",
                 "getUsers", "getImageGallery"} ->
            Params(Min(Nullish(opts.count, 50), CountCap), Bracketed(opts.filter), {})
      [] op = "getRecycleBin" ->
            Params(Min(Nullish(opts.count, 50), CountCap), {}, {})
      [] op = "getComments" ->
            Params(Min(Nullish(opts.count, 50), CountCap),
                   IF Truthy(opts.pageId)
                   THEN {<<"commentable_id", String(opts.pageId)>>,
                         <<"commentable_type", "page">>}
                   ELSE {},
                   {})
      [] op = "getPages" ->
            Params(Min(Nullish(opts.count, 50), CountCap), {}, PagesFilter(opts))
      [] op = "getChapters" ->
            Params(Nullish(opts.count, 50), {},
                   IF Truthy(opts.bookId) THEN {<<"book_id", opts.bookId>>} ELSE {})
      [] op \in {"searchContent", "searchPages"} ->
            Params(IF Truthy(opts.count) THEN Min(opts.count, CountCap) ELSE Undefined,
                   {}, {})
      [] op = "getRecentChanges" ->
            Params(Min(Nullish(opts.count, 20), RecentCap), {}, {})
      [] OTHER -> NoParams

\* an operation's own request: this.request(method, `/coll[/id]`, params, ...)
CallOp(m, k, op, id) ==
    [Request(Push(m, k, Frame("op", NoRec, id, op)), k, OpInfo(op).method,
             Path(OpInfo(op).coll, IF OpInfo(op).byId THEN id ELSE 0, ""), FALSE)
        EXCEPT !.call.th[k].req.params = ListParams(op, m.call.opts)]

\* the elements of a list response; [] when the value holds no data array
DataOf(v) == IF v.k = "list" THEN v.data ELSE <<>>

\* an operation after its own request has returned v
AfterRequest(m0, k, op, v) ==
    LET m == [m0 EXCEPT !.call.own = Ok(v)]
        info == OpInfo(op)
        fan(kind, items) ==
            JoinChildren(SpawnAll(
                [Push(m, k, Frame("PromiseAll", NoRec, 0, op))
                    EXCEPT !.call.items = items, !.call.th[k].st = "spawn"],
                kind, items, 1))
    IN  CASE info.enrich = "none" -> Resume(m, k, Ok(v))
          [] info.shape \in {"single", "upload"} /\ info.enrich \in {"book", "shelf"} ->
                Resume(m, k, EnhanceSync(info.enrich, v))
          [] info.shape \in {"single", "upload"} /\ info.enrich = "page" ->
                EnhancePageResponse(m, k, v)
          [] info.shape \in {"single", "upload"} /\ info.enrich = "chapter" ->
                EnhanceChapterResponse(m, k, v)
          [] info.shape \in {"single", "upload"} /\ info.enrich = "attachment" ->
                EnhanceAttachment(m, k, v)
          [] info.shape = "list" /\ v.k # "list" ->
                Resume(m, k, Throw(TypeError))
          [] info.shape = "list" /\ v.k = "list" /\ info.enrich \in {"book", "shelf"} ->
                Resume([m EXCEPT !.call.items = v.data], k,
                       Ok(EnrichedList([i \in 1..Len(v.data) |->
                            EnhanceSync(info.enrich, JEntity(v.data[i])).v])))
          [] info.shape = "list" /\ v.k = "list" /\ info.enrich \notin {"book", "shelf"} ->
                fan(info.enrich, v.data)
          [] info.shape = "search" ->
                IF IsNullish(v) THEN Resume(m, k, Throw(TypeError))
                ELSE fan("search", DataOf(v))
          [] info.shape = "recent" ->
                IF IsNullish(v) THEN Resume(m, k, Throw(TypeError))
                ELSE fan("recent", DataOf(v))

\* a branch that takes pdf alone for a binary format
IsPdfFormat(fmt) == fmt = "pdf"

\* if (format === 'pdf' || format === 'zip')
IsBinaryFormat(fmt) == fmt \in {"pdf", "zip"}

Descriptor(fmt, slug, url) ==
    [k |-> "descriptor", format |-> fmt, filename |-> <<slug, ".", fmt>>,
     download_url |-> url,
     content_type |-> IF fmt = "pdf" THEN "application/pdf" ELSE "application/zip"]

\* this.request('GET', `/coll/${id}/export/${format}`, ..., { returnText: true })
ExportText(m, k, coll, id, fmt) ==
    Request(Push(m, k, Frame("exportText", [NoRec EXCEPT !.type = coll], id, fmt)),
            k, "GET", Path(coll, id, fmt), TRUE)

\* exportPage / exportBook / exportChapter, up to their first suspension
StartExport(m, op, id, fmt) ==
    CASE op = "exportPage" ->
            LET m1 == Push(m, 1, Frame("exportPageCatch", NoRec, id, fmt))
            IN  IF IsBinaryFormat(fmt)
                THEN CallOp(Push(m1, 1, Frame("exportPage1", NoRec, id, fmt)), 1, "getPage", id)
                ELSE ExportText(m1, 1, "pages", id, fmt)
      [] op = "exportBook" ->
            IF IsBinaryFormat(fmt)
            THEN CallOp(Push(m, 1, Frame("exportBook1", NoRec, id, fmt)), 1, "getBook", id)
            ELSE ExportText(m, 1, "books", id, fmt)
      [] op = "exportChapter" ->
            IF IsBinaryFormat(fmt)
            THEN CallOp(Push(m, 1, Frame("exportChapter1", NoRec, id, fmt)), 1, "getChapter", id)
            ELSE ExportText(m, 1, "chapters", id, fmt)

\* an export that returns whatever text it got
ExportTextAsIs(v, fmt, coll, id) == Ok(v)

\* if (!text) throw new Error(`Empty ${format} content returned from BookStack
\* API`), with ` for book ${id}` / ` for chapter ${id}` in exportBook / exportChapter
ExportTextResult(v, fmt, coll, id) ==
    IF v.k = "undefined" \/ (v.k = "text" /\ v.text = Str(""))
    THEN Throw(PlainError("Error",
            <<Str("Empty "), Str(fmt), Str(" content returned from BookStack API")>>
            \o (CASE coll = "books" -> <<Str(" for book "), Str(String(id))>>
                  [] coll = "chapters" -> <<Str(" for chapter "), Str(String(id))>>
                  [] OTHER -> <<>>)))
    ELSE Ok(v)

\* exportPage's catch: throw new Error(`Failed to export page ${id} as ${format}: ${error.message}`)
ExportPageCatch(id, fmt, e) ==
    Throw(PlainError("Error",
        <<Str("Failed to export page "), Str(String(id)), Str(" as "), Str(fmt), Str(": ")>>
        \o e.message))

\* a catch branch that passes the error on
GetBookSlugRethrow(bookId, e) == Throw(e)

\* getBookSlug's catch branch
GetBookSlugCatch(bookId, e) == Ok(SlugVal(BookSlugFallback(bookId)))

\* a catch branch of getPageInfo that passes the error on
GetPageInfoRethrow(pageId, e) == Throw(e)

\* getPageInfo's catch branch
GetPageInfoCatch(pageId, e) ==
    Ok(InfoVal(PageInfoFallback(pageId).slug, PageInfoFallback(pageId).bookId))

\* getRecentChanges' element task after its try block: the text built from
\* the detail record, or `${Type} content` from the catch branch
ContextualInfo(result, r) ==
    IF r.k = "ok" /\ ~IsNullish(r.v) THEN "detail" ELSE "type"

\* the frames whose function holds the awaited call in a try block
Catching == {"getBookSlug", "getPageInfo", "recentDetail", "exportPageCatch"}

\* the error a try block catches when its body fails on the value returned
CaughtError(r) == IF r.k = "throw" THEN r.e ELSE TypeError

\* A call returns r to the continuation on top of thread k, which runs until
\* the thread is suspended again or its chain has ended.
Resume(m, k, r) ==
    IF m.call.th[k].conts = <<>> THEN Finish(m, k, r)
    ELSE
    LET f == Head(m.call.th[k].conts)
        m1 == Pop(m, k)
    IN  IF r.k = "throw" /\ f.fn \notin Catching THEN Resume(m1, k, r)
        ELSE
        CASE f.fn = "getBookSlug" ->
                IF r.k = "ok" /\ ~IsNullish(r.v)
                THEN Resume([Logged(m1, k, Lookup("book", f.id, FALSE, TRUE,
                                        [slug |-> BookSlugOf(r.v, f.id), bookId |-> 0],
                                        InFlight(m1, f.fn, f.id) \ {<<m.call.c, k>>} # {},
                                        [slug |-> BookSlugOf(r.v, f.id), bookId |-> 0]))
                                EXCEPT !.bc = CacheSet(@, f.id, BookSlugOf(r.v, f.id))],
                            k, Ok(SlugVal(BookSlugOf(r.v, f.id))))
                ELSE Resume([Logged(m1, k, FailedLookup("book", f.id,
                                        GetBookSlugCatch(f.id, CaughtError(r))))
                                EXCEPT !.bc = CacheAfterCatch(@, f.id, BookSlugFallback(f.id))],
                            k, GetBookSlugCatch(f.id, CaughtError(r)))
          [] f.fn = "getPageInfo" ->
                IF r.k = "ok" /\ ~IsNullish(r.v)
                THEN Resume([Logged(m1, k, Lookup("page", f.id, FALSE, TRUE,
                                        PageInfoOf(r.v, f.id),
                                        InFlight(m1, f.fn, f.id) \ {<<m.call.c, k>>} # {},
                                        PageInfoOf(r.v, f.id)))
                                EXCEPT !.pg = CacheSet(@, f.id, PageInfoOf(r.v, f.id))],
                            k, Ok(InfoVal(PageInfoOf(r.v, f.id).slug,
                                          PageInfoOf(r.v, f.id).bookId)))
                ELSE Resume([Logged(m1, k, FailedLookup("page", f.id,
                                        GetPageInfoCatch(f.id, CaughtError(r))))
                                EXCEPT !.pg = CacheAfterCatch(@, f.id, PageInfoFallback(f.id))],
                            k, GetPageInfoCatch(f.id, CaughtError(r)))
          [] f.fn = "generatePageUrlFromId" ->
                IF ~Falsy(r.v.bookId)
                THEN GetBookSlug(Push(m1, k, Frame("pageUrlFromInfo", NoRec, f.id, r.v.slug)),
                                 k, r.v.bookId)
                ELSE Resume(m1, k, Ok(UrlVal(LinkUrl(f.id))))
          [] f.fn = "pageUrlFromInfo" ->
                Resume(m1, k, Ok(UrlVal(<<BaseUrl, "books", r.v.s, "page", f.s>>)))
          [] f.fn = "generatePageUrl" ->
                Resume(m1, k, Ok(UrlVal(PageUrl(r.v.s, f.rec))))
          [] f.fn = "generateChapterUrl" ->
                Resume(m1, k, Ok(UrlVal(ChapterUrl(r.v.s, f.rec))))
          [] f.fn = "generateContentUrl" ->
                Resume(m1, k, Ok(UrlVal(IF f.rec.type = "page"
                                        THEN PageUrl(r.v.s, f.rec)
                                        ELSE ChapterUrl(r.v.s, f.rec))))
          [] f.fn \in {"enhancePageResponse", "enhanceChapterResponse",
                       "enhanceAttachment", "enhanceSearchResult"} ->
                Resume(m1, k, Ok(Enriched(f.rec, r.v.u)))
          [] f.fn = "recentDetail" ->
                EnhanceSearchResult(
                    [m1 EXCEPT !.call.th[k].contextualInfo = ContextualInfo(f.rec, r)],
                    k, f.rec)
          [] f.fn = "PromiseAll" -> Resume(m1, k, r)
          [] f.fn = "op" -> AfterRequest(m1, k, f.s, r.v)
          [] f.fn = "exportText" ->
                Resume(m1, k, ExportTextResult(r.v, f.s, f.rec.type, f.id))
          [] f.fn = "exportPageCatch" ->
                IF r.k = "throw" THEN Resume(m1, k, ExportPageCatch(f.id, f.s, r.e))
                ELSE Resume(m1, k, r)
          [] f.fn = "exportPage1" ->
                CallOp(Push(m1, k, Frame("exportPage2", r.v.rec, f.id, f.s)), k,
                       "getBook", r.v.rec.book_id)
          [] f.fn = "exportPage2" ->
                Resume(m1, k, Ok(Descriptor(f.s, f.rec.slug,
                    <<BaseUrl, "books", r.v.rec.slug, "page", f.rec.slug, "export", f.s>>)))
          [] f.fn = "exportBook1" ->
                Resume(m1, k, Ok(Descriptor(f.s, r.v.rec.slug,
                    <<BaseUrl, "books", r.v.rec.slug, "export", f.s>>)))
          [] f.fn = "exportChapter1" ->
                CallOp(Push(m1, k, Frame("exportChapter2", r.v.rec, f.id, f.s)), k,
                       "getBook", r.v.rec.book_id)
          [] f.fn = "exportChapter2" ->
                Resume(m1, k, Ok(Descriptor(f.s, f.rec.slug,
                    <<BaseUrl, "books", r.v.rec.slug, "chapter", f.rec.slug, "export", f.s>>)))

FileNotFound == PlainError("Error", <<Str("File not found: "), Str("path")>>)

\* a public operation, from its call up to its first suspension
StartOp(m, op, id, fmt, fileExists) ==
    IF WriteGate(op, enableWrite)
    THEN Resume(m, 1, Throw(PlainError("Error", WriteDisabledMessage)))
    ELSE IF OpInfo(op).shape = "export" THEN StartExport(m, op, id, fmt)
    ELSE IF OpInfo(op).shape = "upload"
    THEN IF ~fileExists THEN Resume(m, 1, Throw(FileNotFound))
         ELSE RequestForm(Push(m, 1, Frame("op", NoRec, id, op)), 1,
                          Path("attachments", 0, ""))
    ELSE CallOp(m, 1, op, id)

(* ----------------------------- the remote ----------------------------- *)
NonBlankSlugs == Slugs \ {""}

RemoteBook(b) == Rec("book", b, remoteBooks[b], 0, 0)
RemotePage(p) == Rec("page", p, remotePages[p].slug, remotePages[p].book_id, 0)

\* records of the kinds the client keeps no cache of
RemoteChapter(i) == Rec("chapter", i, IF i % 2 = 1 THEN "basics" ELSE "", ((i - 1) % MaxBook) + 1, 0)
RemoteShelf(i) == Rec("shelf", i, IF i % 2 = 1 THEN "library" ELSE "", 0, 0)
RemoteAttachment(i) == Rec("attachment", i, "", 0, ((i - 1) % MaxPage) + 1)
RemoteOther(coll, i) == Rec(coll, i, "", 0, 0)

OtherIds == 1..2
NewId == 9

\* what a single-record endpoint can hold for an id (nothing for an unknown id)
Entities(coll, id) ==
    CASE coll = "books" -> {RemoteBook(b) : b \in BookIds \cap {id}}
      [] coll = "pages" -> {RemotePage(p) : p \in PageIds \cap {id}}
      [] coll = "chapters" -> {RemoteChapter(i) : i \in OtherIds \cap {id}}
      [] coll = "shelves" -> {RemoteShelf(i) : i \in OtherIds \cap {id}}
      [] coll = "attachments" -> {RemoteAttachment(i) : i \in OtherIds \cap {id}}
      [] OTHER -> {RemoteOther(coll, i) : i \in (OtherIds \cup {0}) \cap {id}}

\* the record a POST creates
Created(coll) ==
    CASE coll = "books" -> {Rec("book", NewId, "new", 0, 0)}
      [] coll = "pages" -> {Rec("page", NewId, "new", b, 0) : b \in BookIds}
      [] coll = "chapters" -> {Rec("chapter", NewId, "new", b, 0) : b \in BookIds}
      [] coll = "shelves" -> {Rec("shelf", NewId, "new", 0, 0)}
      [] coll = "attachments" -> {Rec("attachment", NewId, "", 0, p) : p \in PageIds}
      [] OTHER -> {RemoteOther(coll, NewId)}

\* search results of the kinds that carry no book_id (book_id?: number): a
\* shelf, and a page whose book is not given
SearchShelf == Rec("bookshelf", 1, "library", Undefined, 0)
SearchOrphan == Rec("page", 2, "orphan", Undefined, 0)

\* the records a list endpoint can return elements from
ListItems(coll) ==
    CASE coll = "books" -> {RemoteBook(b) : b \in BookIds}
      [] coll = "pages" -> {RemotePage(p) : p \in PageIds}
      [] coll = "chapters" -> {RemoteChapter(i) : i \in OtherIds}
      [] coll = "shelves" -> {RemoteShelf(i) : i \in OtherIds}
      [] coll = "attachments" -> {RemoteAttachment(i) : i \in OtherIds}
      [] coll = "search" -> {RemotePage(1), RemoteChapter(1), RemoteBook(1),
                             SearchShelf, SearchOrphan}
      [] OTHER -> {RemoteOther(coll, 1)}

\* the lists of up to MaxList distinct records
Lists(S) ==
    UNION {{l \in [1..n -> S] : \A i, j \in 1..n : i # j => l[i] # l[j]} : n \in 0..MaxList}

JsonType == "application/json"

\* the bodies of the 2xx answers the remote can give to a request
SuccessResponses(req) ==
    IF req.path.sub # ""
    THEN {Response(200, "", "text/html", Str("<h1>doc</h1>")),
          Response(200, "", "text/html", Str(""))}
    ELSE IF req.method = "DELETE" THEN {Response(204, "", "", Str(""))}
    ELSE IF req.method = "POST"
    THEN {Response(200, "", JsonType, Ser(JEntity(e))) : e \in Created(req.path.coll)}
    ELSE IF req.path.id # 0 \/ req.path.coll = "system"
    THEN {Response(200, "", JsonType, Ser(JEntity(e))) : e \in Entities(req.path.coll, req.path.id)}
    ELSE {Response(200, "", JsonType, Ser(JList(l))) : l \in Lists(ListItems(req.path.coll))}

\* the other answers: a rejection, a 2xx with a blank body, a 2xx whose body
\* breaks off
FailureResponses ==
    {Response(404, "", JsonType, Ser(JMessage("Not found"))),
     Response(200, "", JsonType, Str("")),
     Response(200, "", JsonType, Str("{\"id\":"))}

Outcomes(req) == SuccessResponses(req) \cup FailureResponses

NetworkError == PlainError("TypeError", <<Str("fetch failed")>>)
AbortError == PlainError("AbortError", <<Str("This operation was aborted")>>)

(* ------------------------------ actions ------------------------------- *)
Commit(c, m) ==
    /\ calls' = [calls EXCEPT ![c] = m.call]
    /\ bookSlugCache' = m.bc
    /\ pageInfoCache' = m.pg
    /\ timers' = m.tm

\* the ids an operation can be called with
IdsOf(op) ==
    IF ~OpInfo(op).byId THEN {0}
    ELSE IF OpInfo(op).coll = "books" THEN BookIds
    ELSE IF OpInfo(op).coll = "pages" THEN PageIds
    ELSE OtherIds

FormatsOf(op) == IF OpInfo(op).shape = "export" THEN ExportFormats ELSE {""}

\* a caller invokes a public operation of the client
Invoke(c, op, id, fmt, fileExists) ==
    /\ calls[c] = IdleCall
    /\ \A d \in CallIds : d < c => calls[d] # IdleCall
    /\ Commit(c, StartOp(Machine(NewCall(c, op, id, fmt)), op, id, fmt, fileExists))
    /\ UNCHANGED <<subject, derived, env, server, enableWrite, remoteBooks, remotePages, edits, changed>>

\* a caller invokes a list or search operation with options
InvokeWith(c, op, opts) ==
    /\ calls[c] = IdleCall
    /\ \A d \in CallIds : d < c => calls[d] # IdleCall
    /\ Commit(c, StartOp(Machine([NewCall(c, op, 0, "") EXCEPT !.opts = opts]),
                         op, 0, "", TRUE))
    /\ UNCHANGED <<subject, derived, env, server, enableWrite, remoteBooks, remotePages, edits, changed>>

\* the caller is done with the outcome of a settled call
Return(c) ==
    /\ calls[c].res # Pending
    /\ \A d \in CallIds : d > c => calls[d] = IdleCall
    /\ calls' = [calls EXCEPT ![c] = IdleCall]
    /\ UNCHANGED <<subject, derived, env, server, enableWrite, bookSlugCache, pageInfoCache, remoteBooks, remotePages,
                   edits, changed, timers>>

\* the attempt in progress, with the response that came in
Received(hist, res) ==
    [hist EXCEPT ![Len(hist)] =
        [@ EXCEPT !.status = res.status, !.retryAfter = res.retryAfter,
                  !.ctype = res.ctype, !.text = res.text]]

\* the abort timers of all the fetches in flight
AnyLiveTimer(m, k) == {t \in m.tm : t.live}

\* the abort timer of the fetch that thread k of the call has in flight
LiveTimer(m, k) == {t \in m.tm : t.c = m.call.c /\ t.k = k /\ t.live}

\* request() / requestForm() after `await fetch(...)` has resolved with res:
\* clearTimeout(timeoutId), then the retry wait or the outcome of the call
OnResponse(m, k, res) ==
    LET th == m.call.th[k]
        hist == Received(th.hist, res)
        m1 == [m EXCEPT !.tm = @ \ LiveTimer(m, k),
                        !.call.th[k].hist = hist]
    IN  IF ShouldRetry(th.req, res)
        THEN [m1 EXCEPT !.call.th[k].st = "sleep",
                        !.call.th[k].wake = RetryDelay(res),
                        !.call.th[k].slept = 0]
        ELSE Resume([m1 EXCEPT !.call.th[k].st = "run",
                               !.call.th[k].last =
                                  [req |-> th.req, hist |-> hist, res |-> Settle(th.req, res)]],
                    k, Settle(th.req, res))

\* fetch rejects: the error leaves request() at the await, before clearTimeout;
\* the timer stays armed, its controller has nothing left to abort (such
\* timers are kept without their origin)
OnReject(m, k, e) ==
    Resume([m EXCEPT !.tm = (@ \ LiveTimer(m, k))
                            \cup {Timer(0, 0, t.left, FALSE) : t \in LiveTimer(m, k)},
                     !.call.th[k].st = "run",
                     !.call.th[k].last =
                        [req |-> m.call.th[k].req, hist |-> m.call.th[k].hist, res |-> Throw(e)]],
           k, Throw(e))

\* the promise chains that exist
Threads == {ck \in CallIds \X (1..(MaxList + 1)) : ck[2] <= Len(calls[ck[1]].th)}

Fetching(c, k) == <<c, k>> \in Threads /\ calls[c].th[k].st = "fetch"

\* the remote answers a fetch in flight
Respond(c, k, res) ==
    /\ Fetching(c, k)
    /\ Commit(c, OnResponse(Machine(calls[c]), k, res))
    /\ UNCHANGED <<subject, derived, env, server, enableWrite, remoteBooks, remotePages, edits, changed>>

\* the record a rename to `slug` changes, if it changes any
Renamed(coll, id, slug) ==
    IF coll = "books" /\ remoteBooks[id] # slug THEN {<<"book", id>>}
    ELSE IF coll = "pages" /\ remotePages[id].slug # slug THEN {<<"page", id>>}
    ELSE {}

\* the remote accepts an update of a book or a page, which may rename it
RespondUpdate(c, k, slug) ==
    /\ Fetching(c, k)
    /\ LET req == calls[c].th[k].req
       IN  /\ req.method = "PUT"
           /\ \/ /\ req.path.coll = "books"
                 /\ req.path.id \in BookIds
                 /\ remoteBooks' = [remoteBooks EXCEPT ![req.path.id] = slug]
                 /\ changed' = changed \cup Renamed("books", req.path.id, slug)
                 /\ UNCHANGED remotePages
                 /\ Commit(c, OnResponse(Machine(calls[c]), k,
                        Response(200, "", JsonType,
                                 Ser(JEntity(Rec("book", req.path.id, slug, 0, 0))))))
              \/ /\ req.path.coll = "pages"
                 /\ req.path.id \in PageIds
                 /\ remotePages' = [remotePages EXCEPT ![req.path.id].slug = slug]
                 /\ changed' = changed \cup Renamed("pages", req.path.id, slug)
                 /\ UNCHANGED remoteBooks
                 /\ Commit(c, OnResponse(Machine(calls[c]), k,
                        Response(200, "", JsonType,
                                 Ser(JEntity(Rec("page", req.path.id, slug,
                                                 remotePages[req.path.id].book_id, 0))))))
    /\ UNCHANGED <<subject, derived, env, server, enableWrite, edits>>

\* the connection fails: fetch rejects
FetchRejects(c, k) ==
    /\ Fetching(c, k)
    /\ Commit(c, OnReject(Machine(calls[c]), k, NetworkError))
    /\ UNCHANGED <<subject, derived, env, server, enableWrite, remoteBooks, remotePages, edits, changed>>

\* an abort timer fires: controller.abort() rejects the fetch it belongs to,
\* if that fetch is still in flight
AbortFires(t) ==
    /\ t \in timers
    /\ t.left = 0
    /\ IF t.live
       THEN Commit(t.c, OnReject([Machine(calls[t.c]) EXCEPT !.tm = @ \ {t}], t.k, AbortError))
       ELSE /\ timers' = timers \ {t}
            /\ UNCHANGED <<calls, bookSlugCache, pageInfoCache>>
    /\ UNCHANGED <<subject, derived, env, server, enableWrite, remoteBooks, remotePages, edits, changed>>

\* the retry delay is over: request() calls itself with one retry less
RetryWake(c, k) ==
    /\ <<c, k>> \in Threads
    /\ calls[c].th[k].st = "sleep"
    /\ calls[c].th[k].wake = 0
    /\ LET th == calls[c].th[k]
       IN  Commit(c, StartFetch(Machine(calls[c]), k,
                                [th.req EXCEPT !.retries = RetriesLeft(th.req) - 1],
                                th.hist))
    /\ UNCHANGED <<subject, derived, env, server, enableWrite, remoteBooks, remotePages, edits, changed>>

Sleeping == {ck \in Threads : calls[ck[1]].th[ck[2]].st = "sleep"}

\* the delays still to run of the pending timers
Delays ==
    {t.left : t \in timers} \cup {calls[ck[1]].th[ck[2]].wake : ck \in Sleeping}

Elapse(left, d) == IF left > d THEN left - d ELSE 0

\* time passes, up to the next moment a timer is due
AdvanceTime(d) ==
    /\ d \in Delays
    /\ d > 0
    /\ \A e \in Delays : e > 0 => d <= e
    /\ timers' = {[t EXCEPT !.left = Elapse(@, d)] : t \in timers}
    /\ calls' = [c \in CallIds |->
                   [calls[c] EXCEPT !.th =
                      [k \in 1..Len(@) |->
                         IF @[k].st = "sleep"
                         THEN [@[k] EXCEPT !.wake = Elapse(@, d), !.slept = @ + d]
                         ELSE @[k]]]]
    /\ UNCHANGED <<subject, derived, env, server, enableWrite, bookSlugCache, pageInfoCache, remoteBooks, remotePages,
                   edits, changed>>

\* another user of the platform renames a book or a page
RemoteEdit(coll, id, slug) ==
    /\ edits < MaxEdits
    /\ edits' = edits + 1
    /\ changed' = changed \cup {<<IF coll = "books" THEN "book" ELSE "page", id>>}
    /\ \/ /\ coll = "books"
          /\ id \in BookIds
          /\ slug # remoteBooks[id]
          /\ remoteBooks' = [remoteBooks EXCEPT ![id] = slug]
          /\ UNCHANGED remotePages
       \/ /\ coll = "pages"
          /\ id \in PageIds
          /\ slug # remotePages[id].slug
          /\ remotePages' = [remotePages EXCEPT ![id].slug = slug]
          /\ UNCHANGED remoteBooks
    /\ UNCHANGED <<subject, derived, env, server, enableWrite, bookSlugCache, pageInfoCache, calls, timers>>

(* --------------------------- specification ---------------------------- *)
EmptyMap == <<>>

InitRemote ==
    /\ remoteBooks = [b \in BookIds |-> IF b % 2 = 1 THEN "guide" ELSE ""]
    /\ remotePages = [p \in PageIds |->
                        [slug |-> IF p % 2 = 1 THEN "intro" ELSE "",
                         book_id |-> ((p - 1) % MaxBook) + 1]]
    /\ edits = 0
    /\ changed = {}

\* an environment variable: unset, or set to a text (its characters)
EnvVar(defined, chars) == [defined |-> defined, chars |-> chars]

Unset == EnvVar(FALSE, <<>>)

\* no record has been handed to an enhance function
NoSubject ==
    [kind |-> "", text |-> [defined |-> FALSE, chars |-> <<>>],
     content |-> [defined |-> FALSE, chars |-> <<>>], detail |-> FALSE,
     created_at |-> Undefined, updated_at |-> Undefined]

NoDerived ==
    [preview |-> <<>>, word_count |-> Undefined,
     last_updated |-> [unit |-> "", n |-> 0], created |-> [unit |-> "", n |-> 0]]

\* the client right after `new BookStackClient(config)`, used as a library
Init ==
    /\ subject = NoSubject
    /\ derived = NoDerived
    /\ env = Unset
    /\ server = {}
    /\ enableWrite \in BOOLEAN
    /\ bookSlugCache = EmptyMap
    /\ pageInfoCache = EmptyMap
    /\ InitRemote
    /\ calls = [c \in CallIds |-> IdleCall]
    /\ timers = {}

\* the answers of a remote that also rate-limits and fails in other ways
RequestOutcomes(req) ==
    Outcomes(req)
    \cup {Response(429, h, JsonType, Ser(JMessage("Too Many Attempts."))) :
            h \in {"", "0", "2", "soon"}}
    \cup {Response(500, "", "text/html", Str("Server Error")),
          Response(503, "", "text/html", Str("Service Unavailable")),
          Response(422, "", JsonType, Ser(JObject)),
          Response(403, "", JsonType, Ser(JMessage("")))}
    \cup {Response(204, "", "text/html", Str("")),
          Response(200, "", "text/plain", Str(" ")),
          Response(200, "", "text/plain", Ser(JObject)),
          Response(200, "", "", Ser(JObject)),
          Response(200, "", JsonType, Ser(JObject)),
          Response(200, "", "", Str("plain"))}

\* the operations that reach the caches, and the ones that rename records
CacheOps == {"getPage", "getAttachment", "updateBook", "updatePage"}

\* the book, and the page of it, the overlapping calls are about
CacheIds == {1}

\* one operation per way of calling request() / requestForm()
RequestOps == {"getBook", "deleteBook", "exportBook", "uploadAttachment"}

\* Every public operation, called on a client fresh from its constructor.
Next ==
    \/ \E op \in Ops : \E id \in IdsOf(op) : \E fmt \in FormatsOf(op) :
          \E fileExists \in BOOLEAN : Invoke(1, op, id, fmt, fileExists)
    \/ \E ck \in Threads : \E res \in Outcomes(calls[ck[1]].th[ck[2]].req) :
          Respond(ck[1], ck[2], res)
    \/ \E ck \in Threads : \E s \in NonBlankSlugs : RespondUpdate(ck[1], ck[2], s)
    \/ \E ck \in Threads : FetchRejects(ck[1], ck[2])
    \/ \E t \in timers : AbortFires(t)
    \/ \E d \in Delays : AdvanceTime(d)

Spec == Init /\ [][Next]_vars

\* Write operations, and a read, one after the other on one client.
NextGate ==
    \/ \E op \in WriteOps \cup {"getPage"} : \E id \in IdsOf(op) \cap {0, 1} :
          \E fileExists \in BOOLEAN : Invoke(1, op, id, "", fileExists)
    \/ \E ck \in Threads : \E res \in Outcomes(calls[ck[1]].th[ck[2]].req) :
          Respond(ck[1], ck[2], res)
    \/ \E ck \in Threads : \E s \in NonBlankSlugs : RespondUpdate(ck[1], ck[2], s)
    \/ \E ck \in Threads : FetchRejects(ck[1], ck[2])
    \/ Return(1)

SpecGate == Init /\ [][NextGate]_vars

\* Calls that follow and overlap each other on one client, while books and
\* pages are renamed through the client and by others.
NextCache ==
    \/ \E c \in CallIds : \E op \in CacheOps : \E id \in IdsOf(op) \cap CacheIds :
          Invoke(c, op, id, "", TRUE)
    \/ \E ck \in Threads : \E res \in Outcomes(calls[ck[1]].th[ck[2]].req) :
          Respond(ck[1], ck[2], res)
    \/ \E ck \in Threads : \E s \in NonBlankSlugs : RespondUpdate(ck[1], ck[2], s)
    \/ \E ck \in Threads : FetchRejects(ck[1], ck[2])
    \/ \E c \in CallIds : Return(c)
    \/ \E coll \in {"books", "pages"} : \E id \in CacheIds : \E s \in NonBlankSlugs :
          RemoteEdit(coll, id, s)

SpecCache == Init /\ [][NextCache]_vars

\* One call at a time against a remote that rate-limits, with the clock.
NextRequest ==
    \/ \E op \in RequestOps : \E id \in IdsOf(op) : \E fmt \in FormatsOf(op) :
          \E fileExists \in BOOLEAN : Invoke(1, op, id, fmt, fileExists)
    \/ \E ck \in Threads : \E res \in RequestOutcomes(calls[ck[1]].th[ck[2]].req) :
          Respond(ck[1], ck[2], res)
    \/ \E ck \in Threads : FetchRejects(ck[1], ck[2])
    \/ \E t \in timers : AbortFires(t)
    \/ \E ck \in Threads : RetryWake(ck[1], ck[2])
    \/ \E d \in Delays : AdvanceTime(d)

SpecRequest == Init /\ [][NextRequest]_vars

\* an operation on request() and the one on requestForm(), which resolves
\* the page and the book of the attachment after its own request
TimeoutOps == {"getBook", "uploadAttachment"}

\* Calls that overlap while the clock runs and abort timers fire.
NextTimeout ==
    \/ \E c \in CallIds : \E op \in TimeoutOps : \E id \in IdsOf(op) \cap {0, 1} :
          Invoke(c, op, id, "", TRUE)
    \/ \E ck \in Threads : \E res \in Outcomes(calls[ck[1]].th[ck[2]].req) :
          Respond(ck[1], ck[2], res)
    \/ \E ck \in Threads : FetchRejects(ck[1], ck[2])
    \/ \E t \in timers : AbortFires(t)
    \/ \E d \in Delays : AdvanceTime(d)
    \/ \E c \in CallIds : Return(c)

SpecTimeout == Init /\ [][NextTimeout]_vars

\* the list and search operations of the client
ListOps ==
    {"getBooks", "getPages", "getChapters", "getShelves", "getAttachments",
     "getComments", "getUsers", "getAuditLog", "getRecycleBin", "getImageGallery",
     "searchContent", "searchPages", "getRecentChanges"}

\* the counts a caller may pass (none, 0, and values below, at and above the cap)
Counts == {Undefined, 0, 20, 100, 101, CountCap, CountCap + 1, 2 * CountCap}

\* the filter objects a caller may pass
Filters == SUBSET {<<"created_by", 1>>, <<"book_id", 2>>}

\* the options an operation takes
OptsOf(op) ==
    {Opts(n, f, b, ch, p) :
        n \in Counts,
        f \in IF op \in {"getBooks", "getPages", "getShelves", "getAttachments",
                         "getAuditLog", "getUsers", "getImageGallery"}
              THEN Filters ELSE {{}},
        b \in IF op \in {"getPages", "getChapters"} THEN {Undefined, 0, 1} ELSE {Undefined},
        ch \in IF op = "getPages" THEN {Undefined, 2} ELSE {Undefined},
        p \in IF op = "getComments" THEN {Undefined, 1} ELSE {Undefined}}

\* The list and search operations, called with options.
NextList ==
    \/ \E op \in ListOps : \E opts \in OptsOf(op) : InvokeWith(1, op, opts)
    \/ \E ck \in Threads : \E res \in Outcomes(calls[ck[1]].th[ck[2]].req) :
          Respond(ck[1], ck[2], res)
    \/ \E ck \in Threads : FetchRejects(ck[1], ck[2])

SpecList == Init /\ [][NextList]_vars

(* --------------------- enhancement of texts and dates ------------------ *)
\* the lengths the previews are cut at
SummaryLength == 100
SearchPreviewLength == 150
PagePreviewLength == 200
RecentPreviewLength == 200

\* 1000 * 60 * 60 ms, in seconds.  A timestamp has whole seconds and the
\* clock whole milliseconds, so Math.floor(ms / 3600000) of the difference
\* is the whole quotient of its seconds by 3600.
SecondsPerHour == 3600

\* the longest text whose words are counted
MaxWords == 4

\* a text property of a record: absent, or a string (its characters)
Text(chars) == [defined |-> TRUE, chars |-> chars]
Absent == [defined |-> FALSE, chars |-> <<>>]

\* a string in a condition: absent and '' are falsy
TruthyText(t) == t.defined /\ t.chars # <<>>

\* s.substring(0, n)
Substring(chars, n) == SubSeq(chars, 1, Min(n, Len(chars)))

Ellipsis == <<".", ".", ".">>

\* text ? `${text.substring(0, n)}${text.length > n ? '...' : ''}` : placeholder
Preview(t, n, placeholder) ==
    IF TruthyText(t)
    THEN Substring(t.chars, n) \o (IF Len(t.chars) > n THEN Ellipsis ELSE <<>>)
    ELSE <<placeholder>>

\* getRecentChanges' element task: the preview of the search result, replaced
\* by the start of the detail's text when the detail request has returned;
\* then `contentPreview ? `${contentPreview}${length >= 200 ? '...' : ''}` : ...`
RecentPreview(s) ==
    LET content == IF s.content.defined THEN s.content.chars ELSE <<>>
        contentPreview ==
            IF ~s.detail THEN content
            ELSE IF s.text.defined THEN Substring(s.text.chars, RecentPreviewLength)
            ELSE IF s.kind = "recentPage" THEN content
            ELSE <<"No description available">>
    IN  IF contentPreview # <<>>
        THEN contentPreview \o
             (IF Len(contentPreview) >= RecentPreviewLength THEN Ellipsis ELSE <<>>)
        ELSE <<"No preview available">>

\* the index of the first separator in a string, 0 when it has none
IndexOf(chars, sep) ==
    IF \E i \in 1..Len(chars) : chars[i] = sep
    THEN CHOOSE i \in 1..Len(chars) :
            chars[i] = sep /\ \A j \in 1..(i - 1) : chars[j] # sep
    ELSE 0

RECURSIVE Split(_, _)
\* s.split(sep): the pieces between the separators, empty pieces included
Split(chars, sep) ==
    LET i == IndexOf(chars, sep)
    IN  IF i = 0 THEN <<chars>>
        ELSE <<SubSeq(chars, 1, i - 1)>> \o Split(SubSeq(chars, i + 1, Len(chars)), sep)

\* word_count: page.text ? page.text.split(' ').length : 0
WordCount(t) == IF TruthyText(t) THEN Len(Split(t.chars, " ")) ELSE 0

\* a friendly date: "Less than an hour ago", "N hours ago", "N days ago",
\* "N weeks ago", the date itself, or "Unknown date"
Friendly(unit, n) == [unit |-> unit, n |-> n]

\* a formatDate that stays with the hours for two days
FormatDateLongHours(age) ==
    IF age = Undefined THEN Friendly("unknown", 0)
    ELSE LET diffInHours == age \div SecondsPerHour
             diffInDays == diffInHours \div 24
             diffInWeeks == diffInDays \div 7
         IN  IF diffInHours < 1 THEN Friendly("less", 0)
             ELSE IF diffInHours < 48 THEN Friendly("hours", diffInHours)
             ELSE IF diffInDays < 7 THEN Friendly("days", diffInDays)
             ELSE IF diffInWeeks < 4 THEN Friendly("weeks", diffInWeeks)
             ELSE Friendly("date", 0)

\* formatDate(dateString), by the age of the timestamp in seconds (Undefined
\* when the record has no timestamp)
FormatDate(age) ==
    IF age = Undefined THEN Friendly("unknown", 0)
    ELSE LET diffInHours == age \div SecondsPerHour
             diffInDays == diffInHours \div 24
             diffInWeeks == diffInDays \div 7
         IN  IF diffInHours < 1 THEN Friendly("less", 0)
             ELSE IF diffInHours < 24 THEN Friendly("hours", diffInHours)
             ELSE IF diffInDays < 7 THEN Friendly("days", diffInDays)
             ELSE IF diffInWeeks < 4 THEN Friendly("weeks", diffInWeeks)
             ELSE Friendly("date", 0)

\* the fields enhanceBookResponse, enhanceChapterResponse, enhanceShelfResponse,
\* enhancePageResponse, enhanceSearchResults and getRecentChanges derive from
\* the texts and the timestamps of a record
Derive(s) ==
    CASE s.kind \in {"book", "chapter", "shelf"} ->
            [NoDerived EXCEPT
                !.preview = Preview(s.text, SummaryLength, "No description available"),
                !.last_updated = FormatDate(s.updated_at),
                !.created = FormatDate(s.created_at)]
      [] s.kind = "page" ->
            [NoDerived EXCEPT
                !.preview = Preview(s.text, PagePreviewLength, "No content preview available"),
                !.word_count = WordCount(s.text),
                !.last_updated = FormatDate(s.updated_at),
                !.created = FormatDate(s.created_at)]
      [] s.kind = "search" ->
            [NoDerived EXCEPT
                !.preview = Preview(s.content, SearchPreviewLength, "No preview available")]
      [] s.kind \in {"recentPage", "recentBook"} ->
            [NoDerived EXCEPT
                !.preview = RecentPreview(s),
                !.last_updated = FormatDate(Nullish(s.updated_at, s.created_at))]

\* a text of n characters
Chars(n) == [i \in 1..n |-> IF i % 2 = 1 THEN "a" ELSE "b"]

\* the lengths around the places the previews are cut at
Lengths ==
    {0, 1, SummaryLength - 1, SummaryLength, SummaryLength + 1,
     SearchPreviewLength - 1, SearchPreviewLength, SearchPreviewLength + 1,
     PagePreviewLength - 1, PagePreviewLength, PagePreviewLength + 1,
     PagePreviewLength + SummaryLength}

LongTexts == {Absent} \cup {Text(Chars(n)) : n \in Lengths}

\* the short texts of letters, spaces, newlines and tabs
WordTexts ==
    {Text(t) : t \in UNION {[1..n -> {"a", " ", "\n"}] : n \in 0..MaxWords}}
    \cup {Text(<<"a", "\t", "a">>), Text(<<"a", "\t", " ", "a">>)}

\* the ages of the timestamps, in seconds, around the places formatDate turns
Ages ==
    {0, 59 * 60, SecondsPerHour - 1, SecondsPerHour, 2 * SecondsPerHour,
     24 * SecondsPerHour - 1, 24 * SecondsPerHour, 25 * SecondsPerHour,
     7 * 24 * SecondsPerHour - 1, 7 * 24 * SecondsPerHour, 8 * 24 * SecondsPerHour,
     28 * 24 * SecondsPerHour - 1, 28 * 24 * SecondsPerHour, 30 * 24 * SecondsPerHour}

\* a record is updated no earlier than it is created
Dates == {d \in (Ages \cup {Undefined}) \X (Ages \cup {Undefined}) :
            (d[1] # Undefined /\ d[2] # Undefined) => d[1] >= d[2]}

Subject(kind, text, content, detail, d) ==
    [kind |-> kind, text |-> text, content |-> content, detail |-> detail,
     created_at |-> d[1], updated_at |-> d[2]]

\* the records handed to the enhance functions
Subjects ==
    {Subject(kind, t, Absent, FALSE, d) :
        kind \in {"book", "chapter", "shelf"}, t \in LongTexts,
        d \in {e \in Dates : e[1] \in {Undefined, 25 * SecondsPerHour}}}
    \cup {Subject("page", t, Absent, FALSE, d) :
            t \in LongTexts, d \in Dates}
    \cup {Subject("page", t, Absent, FALSE, <<Undefined, Undefined>>) : t \in WordTexts}
    \cup {Subject("search", Absent, t, FALSE, <<Undefined, Undefined>>) : t \in LongTexts}
    \cup {Subject(kind, t, c, detail, <<Undefined, 0>>) :
            kind \in {"recentPage", "recentBook"}, t \in LongTexts,
            c \in {Absent, Text(Chars(1)), Text(Chars(PagePreviewLength + SummaryLength))},
            detail \in BOOLEAN}

\* a record comes in to be enhanced
InitEnhance ==
    /\ subject \in Subjects
    /\ derived = NoDerived
    /\ env = Unset
    /\ server = {}
    /\ enableWrite = FALSE
    /\ bookSlugCache = EmptyMap
    /\ pageInfoCache = EmptyMap
    /\ InitRemote
    /\ calls = [c \in CallIds |-> IdleCall]
    /\ timers = {}

\* the enhance function derives the fields of the record
Enhance ==
    /\ derived = NoDerived
    /\ derived' = Derive(subject)
    /\ UNCHANGED <<subject, env, server, enableWrite, bookSlugCache, pageInfoCache,
                   remoteBooks, remotePages, edits, changed, calls, timers>>

NextEnhance == Enhance

SpecEnhance == InitEnhance /\ [][NextEnhance]_vars

(* ------------------------------ properties ---------------------------- *)
\* the calls that have been made
Made == {c \in CallIds : calls[c] # IdleCall}

\* the calls that have settled
Settled == {c \in Made : calls[c].res # Pending}

\* C1: with enableWrite false, every write operation fails with an error whose
\* message contains "Write operations are disabled", and the client issues
\* no HTTP request for it.
C1_WriteGate ==
    \A c \in Made :
        (calls[c].op \in WriteOps /\ ~enableWrite) =>
            /\ calls[c].res.k = "throw"
            /\ Includes(calls[c].res.e.message, Str("Write operations are disabled"))
            /\ calls[c].fetches = 0
            /\ calls[c].methods = {}

\* a deletion or an upload has been refused by a client with writes disabled
\* that had served reads before
C1_Witness ==
    /\ ~enableWrite
    /\ bookSlugCache # EmptyMap
    /\ \E c \in Settled :
          /\ calls[c].op \in {"deletePage", "uploadAttachment"}
          /\ calls[c].res.k = "throw"
          /\ calls[c].fetches = 0

\* the request() / requestForm() calls that have settled, as <<call, thread>>
SettledRequests == {ck \in Threads : calls[ck[1]].th[ck[2]].last.res # Pending}

\* the attempts and the outcome of the request settled last by a thread
LastOf(ck) == calls[ck[1]].th[ck[2]].last

Is2xx(status) == status >= 200 /\ status <= 299

\* C2: when the remote answers 429 to every attempt of a request() call, the
\* call makes exactly 4 fetch calls and then rejects with an error whose
\* status is 429; no request() call ever makes more than 4.
C2_PersistentRateLimit ==
    /\ \A ck \in Threads : Len(calls[ck[1]].th[ck[2]].hist) <= 4
    /\ \A ck \in SettledRequests :
          LET h == LastOf(ck).hist
              r == LastOf(ck).res
          IN  (~LastOf(ck).req.form /\ \A i \in 1..Len(h) : h[i].status = 429) =>
                 /\ Len(h) = 4
                 /\ r.k = "throw"
                 /\ r.e.status = 429
                 /\ r.e.response.status = 429

\* a request() call has been answered 429 four times and has failed
C2_Witness ==
    \E ck \in SettledRequests :
        /\ Len(LastOf(ck).hist) = 4
        /\ \A i \in 1..4 : LastOf(ck).hist[i].status = 429
        /\ LastOf(ck).res.k = "throw"
        /\ calls[ck[1]].fetches = 4

\* the seconds a retry-after header asks for; 10 when the header is absent
HeaderSeconds(h) ==
    CASE h = "" -> 10
      [] h = "0" -> 0
      [] h = "2" -> 2

\* a body that request() can turn into a result: JSON text or no text
Readable(text) == JSONParse(text).ok \/ Trim(text) = Str("")

\* C3: when a request() call is answered 429 with a retry-after of d seconds
\* (10 when the header is absent) and then 2xx (with a body it can read), it
\* resolves after exactly 2 fetch calls, and the second fetch is not issued
\* before d seconds have passed since the 429 was received.
C3_RetryAfterHonoured ==
    /\ \A ck \in Threads :
          LET h == calls[ck[1]].th[ck[2]].hist
          IN  (Len(h) >= 2 /\ h[1].status = 429 /\ h[1].retryAfter \in {"", "0", "2"}) =>
                 h[2].waited >= HeaderSeconds(h[1].retryAfter) * 1000
    /\ \A ck \in SettledRequests :
          LET h == LastOf(ck).hist
          IN  (/\ Len(h) >= 2 /\ h[1].status = 429 /\ Is2xx(h[2].status)
               /\ LastOf(ck).req.returnText \/ Readable(h[2].text)) =>
                 /\ Len(h) = 2
                 /\ LastOf(ck).res.k = "ok"
                 /\ LastOf(ck).req.retries = DefaultRetries - 1

\* a call answered 429 without the header, then 200, has resolved 10 s later
C3_Witness ==
    \E ck \in SettledRequests :
        LET h == LastOf(ck).hist
        IN  /\ Len(h) = 2
            /\ h[1].status = 429 /\ h[1].retryAfter = ""
            /\ h[2].status = 200 /\ h[2].waited = 10000
            /\ LastOf(ck).res.k = "ok"

\* the message of the error for a body: its `message` field when the body is
\* JSON with a non-empty one, the raw body otherwise
ExpectedMessage(body) ==
    IF body.t = "json" /\ body.v.k = "message" /\ body.v.message # ""
    THEN <<Str(body.v.message)>> ELSE <<body>>

\* C4: when the final response of a request has a non-2xx status s and raw
\* body b, the error thrown has status = s, response.status = s,
\* response.data = b, and the message described above.
C4_ErrorShape ==
    \A ck \in SettledRequests :
        LET h == LastOf(ck).hist
            final == h[Len(h)]
            r == LastOf(ck).res
        IN  (final.status # 0 /\ ~Is2xx(final.status)) =>
               /\ r.k = "throw"
               /\ r.e.status = final.status
               /\ r.e.response.status = final.status
               /\ r.e.response.data = final.text
               /\ r.e.message = ExpectedMessage(final.text)

\* a 500 with a plain-text body has been turned into an error
C4_Witness ==
    \E ck \in SettledRequests :
        LET h == LastOf(ck).hist
        IN  /\ h[Len(h)].status = 500
            /\ LastOf(ck).res.k = "throw"
            /\ LastOf(ck).res.e.message = <<Str("Server Error")>>

\* the resolutions made for a call, as <<call, index>>
Lookups == {ci \in Made \X (1..4) : ci[2] <= Len(calls[ci[1]].lookups)}

LookupOf(ci) == calls[ci[1]].lookups[ci[2]]

\* l2 resolves the id that l1 resolved, in a call made after l1's call settled
ResolvedAgain(c1, c2) ==
    /\ c1[1] \in calls[c2[1]].after
    /\ LookupOf(c1).kind = LookupOf(c2).kind
    /\ LookupOf(c1).id = LookupOf(c2).id

\* C5: when the remote answers a request made for an operation with a
\* non-2xx status s, the error that reaches the operation's caller carries
\* status s and the raw body (as the operation's own request() call threw it).
C5_StatusPropagates ==
    \A c \in Settled :
        LET last == calls[c].th[1].last
            final == last.hist[Len(last.hist)]
        IN  (/\ calls[c].res.k = "throw"
             /\ last.res.k = "throw"
             /\ final.status # 0
             /\ ~Is2xx(final.status)) =>
               /\ calls[c].res.e.status = final.status
               /\ calls[c].res.e.response.data = final.text

\* C6 as stated: once an id has been resolved with a fetch, resolving it
\* again is served from the cache (no second fetch) with the same value.
C6_SecondResolutionCached ==
    \A c1, c2 \in Lookups :
        (ResolvedAgain(c1, c2) /\ ~LookupOf(c1).hit) =>
            /\ LookupOf(c2).hit
            /\ LookupOf(c2).val = LookupOf(c1).val

\* C6, amended: once an id has been resolved with a fetch that succeeded, and
\* no other lookup of the id was in flight at that moment, resolving it again
\* issues no fetch and returns the same value; if another lookup was in
\* flight, the second resolution is still served from the cache.
C6_SecondResolutionCachedAfterSuccess ==
    \A c1, c2 \in Lookups :
        (ResolvedAgain(c1, c2) /\ ~LookupOf(c1).hit /\ LookupOf(c1).ok) =>
            /\ LookupOf(c2).hit
            /\ ~LookupOf(c1).raced => LookupOf(c2).val = LookupOf(c1).val

\* a book has been resolved with a fetch by one call and from the cache by
\* the next
C6_Witness ==
    \E c1, c2 \in Lookups :
        /\ ResolvedAgain(c1, c2)
        /\ LookupOf(c1).kind = "book"
        /\ ~LookupOf(c1).hit /\ LookupOf(c1).ok /\ ~LookupOf(c1).raced
        /\ LookupOf(c2).hit
        /\ calls[c2[1]].res.k = "ok"

C8_AppendOnly ==
    [][/\ \A id \in DOMAIN bookSlugCache :
             id \in DOMAIN bookSlugCache' /\ bookSlugCache'[id] = bookSlugCache[id]
       /\ \A id \in DOMAIN pageInfoCache :
             id \in DOMAIN pageInfoCache' /\ pageInfoCache'[id] = pageInfoCache[id]]_vars

\* the operations that build an address for the one record they return
EnrichingSingleOps ==
    {op \in Ops : OpInfo(op).shape \in {"single", "upload"}
                  /\ OpInfo(op).enrich \in {"page", "chapter", "attachment"}}

\* the promise chains of the elements of list operations, as <<call, thread>>
ElementTasks == {ck \in Threads : ck[2] >= 2}

\* C9: slug resolution never raises.  Whatever the outcome of its fetch (a
\* non-2xx status, a network error, a timeout, an empty or broken body), a
\* failed getBookSlug returns String(id) and a failed getPageInfo returns
\* {slug: String(id), bookId: 0}; so every address is built: an element task
\* never fails, an operation on one record fails only by its own request,
\* and generatePageUrlFromId gives baseUrl/link/<pageId> when the page is
\* not resolved.
C9_ResolutionNeverRaises ==
    /\ \A ci \in Lookups :
          LET l == LookupOf(ci)
          IN  /\ ~l.raised
              /\ ~l.ok => l.val = [slug |-> String(l.id), bookId |-> 0]
    /\ \A ck \in ElementTasks :
          calls[ck[1]].th[ck[2]].st = "done" => calls[ck[1]].th[ck[2]].res.k = "ok"
    /\ \A c \in Settled :
          (/\ calls[c].op \in EnrichingSingleOps
           /\ calls[c].res.k = "throw"
           /\ calls[c].fetches > 0) =>
             /\ calls[c].fetches = 1
             /\ calls[c].th[1].last.req.path.coll = OpInfo(calls[c].op).coll
    /\ \A c \in Settled :
          (/\ calls[c].op = "getAttachment"
           /\ calls[c].res.k = "ok"
           /\ ~calls[c].lookups[1].ok) =>
             calls[c].res.v.url = LinkUrl(calls[c].res.v.rec.uploaded_to)
    /\ \A c \in Settled :
          (/\ calls[c].op = "getPage"
           /\ calls[c].res.k = "ok"
           /\ ~calls[c].lookups[1].ok) =>
             calls[c].res.v.url =
                PageUrl(String(calls[c].res.v.rec.book_id), calls[c].res.v.rec)

\* getPage has returned an address built on the book's id after the fetch of
\* the book was aborted by its timer, and an attachment's page was not found
C9_Witness ==
    \/ \E c \in Settled :
          /\ calls[c].op = "getPage"
          /\ calls[c].res.k = "ok"
          /\ ~calls[c].lookups[1].ok
          /\ calls[c].th[1].last.res = Throw(AbortError)
    \/ \E c \in Settled :
          /\ calls[c].op = "getAttachment"
          /\ calls[c].res.k = "ok"
          /\ ~calls[c].lookups[1].ok
          /\ calls[c].th[1].last.res.k = "throw"
          /\ calls[c].th[1].last.res.e.status = 404

\* the list operations that enrich the elements they return
EnrichingListOps ==
    {"getBooks", "getPages", "getChapters", "getShelves", "getAttachments",
     "searchContent", "searchPages", "getRecentChanges"}

\* C10: a list operation that enriches its elements returns a list of the
\* length of the remote list, whose element i is the enrichment of element i
\* of the remote list, in whatever order the element lookups completed.
C10_ListOrderKept ==
    \A c \in Settled :
        (calls[c].op \in EnrichingListOps /\ calls[c].res.k = "ok") =>
            /\ calls[c].res.v.k = "enrichedList"
            /\ Len(calls[c].res.v.items) = Len(calls[c].items)
            /\ \A i \in 1..Len(calls[c].items) :
                  /\ calls[c].res.v.items[i].k = "enriched"
                  /\ calls[c].res.v.items[i].rec = calls[c].items[i]

\* a list of two elements has been returned after the lookup of the second
\* completed before the lookup of the first
C10_Witness ==
    \E c \in Settled :
        /\ calls[c].op \in EnrichingListOps
        /\ calls[c].res.k = "ok"
        /\ Len(calls[c].items) = 2
        /\ calls[c].order = <<2, 1>>
        /\ calls[c].fetches = 3

\* the list operations that start one task per element
BatchOps ==
    {"getPages", "getChapters", "getAttachments", "searchContent", "searchPages",
     "getRecentChanges"}

\* the resolutions made by promise chain k of call c, in the order made
LookupsBy(c, k) == SelectSeq(calls[c].lookups, LAMBDA l : l.th = k)

\* the book segment of an address: the slug resolved, the id when the
\* resolution failed
AncestorSegment(l, bookId) == IF l.ok THEN l.val.slug ELSE String(bookId)

\* element i of the list returned by call c is the enrichment of element i of
\* the remote list, built on what the element's own resolutions gave
ElementEnriched(c, i) ==
    LET item == calls[c].items[i]
        ls == LookupsBy(c, i + 1)
        e == calls[c].res.v.items[i]
    IN  /\ e.rec = item
        /\ CASE item.type \in {"page", "chapter"} /\ Falsy(item.book_id) ->
                   /\ OpInfo(calls[c].op).enrich = "search"
                   /\ ls = <<>>
                   /\ e.url = <<BaseUrl, "link", String(item.id)>>
             [] item.type \in {"page", "chapter"} /\ Truthy(item.book_id) ->
                   /\ Len(ls) = 1
                   /\ ls[1].kind = "book" /\ ls[1].id = item.book_id
                   /\ (ls[1].ok /\ <<"book", item.book_id>> \notin changed) =>
                         ls[1].val = FreshBook(item.book_id)
                   /\ e.url = <<BaseUrl, "books", AncestorSegment(ls[1], item.book_id),
                                item.type, SlugOrId(item.slug, item.id)>>
             [] item.type = "attachment" ->
                   /\ Len(ls) >= 1
                   /\ ls[1].kind = "page" /\ ls[1].id = item.uploaded_to
                   /\ IF ~ls[1].ok
                      THEN /\ Len(ls) = 1
                           /\ e.url = <<BaseUrl, "link", String(item.uploaded_to)>>
                      ELSE /\ Len(ls) = 2
                           /\ ls[2].kind = "book" /\ ls[2].id = ls[1].val.bookId
                           /\ e.url = <<BaseUrl, "books",
                                        AncestorSegment(ls[2], ls[1].val.bookId),
                                        "page", ls[1].val.slug>>
             [] item.type = "book" ->
                   /\ ls = <<>>
                   /\ e.url = <<BaseUrl, "books", SlugOrId(item.slug, item.id)>>
             [] item.type = "bookshelf" ->
                   /\ ls = <<>>
                   /\ e.url = <<BaseUrl, "shelves", SlugOrId(item.slug, item.id)>>
             [] OTHER -> FALSE

FinalOf(ck) == LastOf(ck).hist[Len(LastOf(ck).hist)]

\* the request() calls that ended on a 2xx response, as <<call, thread>>
SucceededRequests ==
    {ck \in SettledRequests :
        /\ ~LastOf(ck).req.form
        /\ LastOf(ck).hist # <<>>
        /\ Is2xx(FinalOf(ck).status)}

\* a content-type header that is present and is not JSON
NonJsonType(ctype) == ctype # "" /\ ctype # JsonType

\* what JSON.parse makes of a body
ParsedAs(text, r) ==
    IF text.t = "json" THEN r = Ok(text.v)
    ELSE r.k = "throw" /\ r.e.name = "SyntaxError" /\ r.e.status = Undefined

\* C12 as stated: for a 2xx response request() returns an empty result when
\* the status is 204 or the body is blank, the raw body text when the
\* content type is present and is not JSON, and the body parsed as JSON
\* otherwise.
C12_SuccessParsing ==
    \A ck \in SucceededRequests :
        LET f == FinalOf(ck)
            r == LastOf(ck).res
        IN  IF f.status = 204 \/ Trim(f.text) = Str("") THEN r = Ok(JUndefined)
            ELSE IF NonJsonType(f.ctype) THEN r = Ok(JText(f.text))
            ELSE ParsedAs(f.text, r)

\* C12, amended: for a 2xx response request() returns the raw body text when
\* the call asked for text (returnText) or the content type is present and
\* is not JSON, whatever the status and the body; otherwise an empty result
\* when the status is 204 or the body is blank; otherwise the body parsed as
\* JSON.
C12_SuccessParsingTextFirst ==
    \A ck \in SucceededRequests :
        LET f == FinalOf(ck)
            r == LastOf(ck).res
        IN  IF LastOf(ck).req.returnText \/ NonJsonType(f.ctype)
            THEN r = Ok(JText(f.text))
            ELSE IF f.status = 204 \/ Trim(f.text) = Str("") THEN r = Ok(JUndefined)
            ELSE ParsedAs(f.text, r)

\* a blank body of a non-JSON content type has been returned as text, and a
\* JSON body without a content type has been parsed
C12_Witness ==
    \/ \E ck \in SucceededRequests :
          /\ ~LastOf(ck).req.returnText
          /\ FinalOf(ck).ctype = "text/plain"
          /\ FinalOf(ck).text = Str(" ")
          /\ LastOf(ck).res = Ok(JText(Str(" ")))
    \/ \E ck \in SucceededRequests :
          /\ ~LastOf(ck).req.returnText
          /\ FinalOf(ck).ctype = ""
          /\ LastOf(ck).res = Ok(JObject)

\* C13: requestForm (the multipart upload of uploadAttachment) takes no part
\* in the retry loop: it never waits and never fetches twice, and a 429
\* answer is thrown after its one fetch as an error with status 429 in the
\* shape of request() errors (status, response.status, response.data, message).
C13_FormNotRetried ==
    /\ \A ck \in Threads :
          LET th == calls[ck[1]].th[ck[2]]
          IN  (th.req.form /\ th.st \in {"fetch", "sleep"}) =>
                 /\ th.st = "fetch"
                 /\ Len(th.hist) = 1
                 /\ th.req.retries = Undefined
    /\ \A ck \in SettledRequests :
          LET h == LastOf(ck).hist
              r == LastOf(ck).res
          IN  (LastOf(ck).req.form /\ h # <<>> /\ h[1].status = 429) =>
                 /\ Len(h) = 1
                 /\ calls[ck[1]].fetches = 1
                 /\ r.k = "throw"
                 /\ r.e.status = 429
                 /\ r.e.response.status = 429
                 /\ r.e.response.data = h[1].text
                 /\ r.e.message = ExpectedMessage(h[1].text)
                 /\ calls[ck[1]].res = r

\* uploadAttachment has failed with status 429 after one fetch
C13_Witness ==
    \E c \in Settled :
        /\ calls[c].op = "uploadAttachment"
        /\ calls[c].th[1].last.req.form
        /\ calls[c].fetches = 1
        /\ calls[c].res.k = "throw"
        /\ calls[c].res.e.status = 429
        /\ calls[c].res.e.message = <<Str("Too Many Attempts.")>>

\* the live abort timers armed for promise chain ck
TimersOf(ck) == {t \in timers : t.live /\ t.c = ck[1] /\ t.k = ck[2]}

\* the promise chains whose fetch is in flight
InFlightFetches == {ck \in Threads : calls[ck[1]].th[ck[2]].st = "fetch"}

\* promise chain ck issues a fetch in this step
FetchStarts(ck) ==
    /\ ck[2] <= Len(calls'[ck[1]].th)
    /\ calls'[ck[1]].th[ck[2]].st = "fetch"
    /\ \/ ck \notin Threads
       \/ calls[ck[1]].th[ck[2]].st # "fetch"

\* the fetch of promise chain ck is aborted in this step
FetchAborted(ck) ==
    /\ ck \in InFlightFetches
    /\ ck[2] <= Len(calls'[ck[1]].th)
    /\ calls'[ck[1]].th[ck[2]] # calls[ck[1]].th[ck[2]]
    /\ calls'[ck[1]].th[ck[2]].last =
          [req |-> calls[ck[1]].th[ck[2]].req, hist |-> calls[ck[1]].th[ck[2]].hist,
           res |-> Throw(AbortError)]

\* C14: every fetch in flight has one abort timer of its own, armed with
\* 30 s by request() and 120 s by requestForm() when the fetch is issued;
\* a fetch is aborted only by its own timer when that is due, and the abort
\* leaves every other call, every other fetch in flight and the timers of
\* these as they were.
C14_TimeoutIsLocal ==
    /\ [](\A ck \in InFlightFetches :
             /\ Cardinality(TimersOf(ck)) = 1
             /\ \A t \in TimersOf(ck) :
                   t.left <= (IF calls[ck[1]].th[ck[2]].req.form THEN 120000 ELSE 30000))
    /\ [][\A ck \in CallIds \X (1..(MaxList + 1)) :
             /\ FetchStarts(ck) =>
                   \E t \in timers' :
                      /\ t.live /\ t.c = ck[1] /\ t.k = ck[2]
                      /\ t.left = (IF calls'[ck[1]].th[ck[2]].req.form
                                   THEN 120000 ELSE 30000)
             /\ FetchAborted(ck) =>
                   /\ \A t \in TimersOf(ck) : t.left = 0 /\ t \notin timers'
                   /\ \A d \in CallIds \ {ck[1]} : calls'[d] = calls[d]
                   /\ \A other \in InFlightFetches \ {ck} :
                         /\ calls'[other[1]].th[other[2]] = calls[other[1]].th[other[2]]
                         /\ TimersOf(other) \subseteq timers']_vars

\* a call has been aborted by its timer after 30 s while the upload made at
\* the same time is still in flight, with 90 s left on its own timer
C14_Witness ==
    \E c, d \in Made :
        /\ c # d
        /\ calls[c].res = Throw(AbortError)
        /\ calls[d].op = "uploadAttachment"
        /\ calls[d].th[1].st = "fetch"
        /\ calls[d].th[1].req.form
        /\ \E t \in TimersOf(<<d, 1>>) : t.left = 90000

\* the calls of list and search operations that have sent their own request
ListRequests == {c \in Made : calls[c].op \in ListOps /\ calls[c].fetches > 0}

\* the query parameters of the own request of a list call
ParamsOf(c) == calls[c].th[1].req.params

\* C15: whatever count a caller passes to a list or search operation, the
\* count query parameter of the request sent to the remote is at most 500
\* (or is not sent).
C15_CountCapped ==
    \A c \in ListRequests :
        ParamsOf(c).count # Undefined => ParamsOf(c).count <= 500

\* The filter criteria a call was given: the members of its filter option
\* and, for getPages and getChapters, its bookId and chapterId arguments.
CriteriaOf(c) ==
    LET o == calls[c].opts
    IN  IF calls[c].op \in {"getPages", "getChapters"}
        THEN {kv \in o.filter : ~(kv[1] = "book_id" /\ Truthy(o.bookId))}
             \cup (IF Truthy(o.bookId) THEN {<<"book_id", o.bookId>>} ELSE {})
             \cup (IF Truthy(o.chapterId) THEN {<<"chapter_id", o.chapterId>>} ELSE {})
        ELSE o.filter

\* C16: every filter criterion given to a list operation is sent as a
\* query parameter filter[<key>]=<value> of its own, and as nothing else.
C16_FiltersBracketed ==
    \A c \in ListRequests :
        /\ \A kv \in CriteriaOf(c) : <<kv[1], ToString(kv[2])>> \in ParamsOf(c).bracketed
        /\ calls[c].op # "getComments" =>
              Cardinality(ParamsOf(c).bracketed) = Cardinality(CriteriaOf(c))
        /\ ParamsOf(c).filter = {}

\* the enriched records a settled call has returned
EnrichedRecords(c) ==
    IF calls[c].res.k # "ok" THEN {}
    ELSE IF calls[c].res.v.k = "enriched" THEN {calls[c].res.v}
    ELSE IF calls[c].res.v.k = "enrichedList"
    THEN {calls[c].res.v.items[i] : i \in 1..Len(calls[c].res.v.items)}
    ELSE {}

\* the records the addresses are generated for
Addressed(c) ==
    {e \in EnrichedRecords(c) :
        e.rec.type \in {"book", "page", "chapter", "shelf", "bookshelf"}}

\* the segment a record is named by in its own address
OwnSegment(rec) == IF rec.slug # "" THEN rec.slug ELSE ToString(rec.id)

\* the last segment of an address
LastSegment(url) == url[Len(url)]

\* C17 as stated: the address generated for a book, page, chapter, shelf or
\* search-result record ends in the record's slug when the slug is not
\* empty, and in its id otherwise.
C17_OwnSegment ==
    \A c \in Settled : \A e \in Addressed(c) :
        LastSegment(e.url) = OwnSegment(e.rec)

\* C17, amended: the address generated for a book, shelf, page or chapter
\* record, and for a search result of these kinds that carries its book_id
\* where it has a book, is <base>/<kind>/<segment> resp.
\* <base>/books/<book>/<kind>/<segment>, with the record's slug for segment
\* when the slug is not empty and its id otherwise; a page or chapter search
\* result without book_id gets <base>/link/<id> whatever its slug.
C17_OwnSegmentWhenPlaced ==
    \A c \in Settled : \A e \in Addressed(c) :
        IF e.rec.type \in {"page", "chapter"} /\ e.rec.book_id \in {0, Undefined}
        THEN e.url = <<BaseUrl, "link", ToString(e.rec.id)>>
        ELSE /\ LastSegment(e.url) = OwnSegment(e.rec)
             /\ e.rec.type = "book" => e.url = <<BaseUrl, "books", OwnSegment(e.rec)>>
             /\ e.rec.type \in {"shelf", "bookshelf"} =>
                   e.url = <<BaseUrl, "shelves", OwnSegment(e.rec)>>
             /\ e.rec.type \in {"page", "chapter"} =>
                   /\ Len(e.url) = 5
                   /\ e.url[1] = BaseUrl /\ e.url[2] = "books"
                   /\ e.url[4] = e.rec.type

\* getPages has returned the page with slug "intro" of the book with slug
\* "guide" with the address <base>/books/guide/page/intro, and a page without
\* slug with an address ending in its id
C17_Witness ==
    \E c \in Settled :
        /\ calls[c].op = "getPages"
        /\ \E e \in Addressed(c) :
              /\ e.rec.slug = "intro"
              /\ e.url = <<BaseUrl, "books", "guide", "page", "intro">>
        /\ \E e \in Addressed(c) :
              /\ e.rec.slug = "" /\ e.rec.id = 2
              /\ LastSegment(e.url) = "2"

ExportOps == {"exportPage", "exportBook", "exportChapter"}

\* the export calls by the kind of their format
BinaryExports == {c \in Made : calls[c].op \in ExportOps /\ calls[c].fmt \in {"pdf", "zip"}}
TextExports ==
    {c \in Made : calls[c].op \in ExportOps
                  /\ calls[c].fmt \in {"html", "markdown", "plaintext"}}

\* the body of the response that settled the own request of call c
BodyOf(c) == calls[c].th[1].last.hist[Len(calls[c].th[1].last.hist)].text

\* C18: an export as pdf or zip sends no request to the /export/ endpoint
\* and returns a descriptor with download_url, filename and content_type
\* ("application/pdf", "application/zip"); an export as html, markdown or
\* plaintext requests /<coll>/<id>/export/<format> and returns the text of
\* the response body as it is.
C18_ExportByFormat ==
    /\ \A c \in BinaryExports :
          /\ \A k \in 1..Len(calls[c].th) :
                /\ calls[c].th[k].req.path.sub = ""
                /\ calls[c].th[k].last.req.path.sub = ""
          /\ calls[c].res.k = "ok" =>
                /\ calls[c].res.v.k = "descriptor"
                /\ calls[c].res.v.format = calls[c].fmt
                /\ calls[c].res.v.content_type =
                      (IF calls[c].fmt = "pdf" THEN "application/pdf" ELSE "application/zip")
                /\ Len(calls[c].res.v.filename) = 3
                /\ calls[c].res.v.filename[3] = calls[c].fmt
                /\ LET url == calls[c].res.v.download_url
                   IN  /\ url[1] = BaseUrl
                       /\ url[Len(url) - 1] = "export"
                       /\ url[Len(url)] = calls[c].fmt
    /\ \A c \in TextExports :
          /\ calls[c].fetches <= 1
          /\ calls[c].fetches = 1 =>
                /\ calls[c].th[1].req.path =
                      Path(OpInfo(calls[c].op).coll, calls[c].id, calls[c].fmt)
                /\ calls[c].th[1].req.returnText
          /\ calls[c].res.k = "ok" => calls[c].res.v = JText(BodyOf(c))

\* exportPage as zip has returned a descriptor after fetching the page and
\* its book
C18_Witness ==
    \E c \in Settled :
        /\ calls[c].op = "exportPage"
        /\ calls[c].fmt = "zip"
        /\ calls[c].res.k = "ok"
        /\ calls[c].res.v.content_type = "application/zip"
        /\ calls[c].res.v.download_url =
              <<BaseUrl, "books", "guide", "page", "intro", "export", "zip">>
        /\ calls[c].fetches >= 2

\* C19: a text export (html, markdown, plaintext) whose request succeeded
\* with an empty body fails with an error; no text export returns an empty
\* string.
C19_EmptyExportFails ==
    \A c \in TextExports \cap Settled :
        /\ (/\ calls[c].th[1].last.res.k = "ok"
            /\ BodyOf(c) = Str("")) =>
              /\ calls[c].res.k = "throw"
              /\ Includes(calls[c].res.e.message, Str("Empty "))
              /\ Includes(calls[c].res.e.message, Str(calls[c].fmt))
        /\ calls[c].res.k = "ok" => calls[c].res.v # JText(Str(""))

\* exportBook as html has failed on a 200 response with an empty body
C19_Witness ==
    \E c \in Settled :
        /\ calls[c].op = "exportBook"
        /\ calls[c].fmt = "html"
        /\ calls[c].th[1].last.res = Ok(JText(Str("")))
        /\ calls[c].res.k = "throw"
        /\ calls[c].res.e.message =
              <<Str("Empty "), Str("html"), Str(" content returned from BookStack API"),
                Str(" for book "), Str(ToString(calls[c].id))>>

\* the sentence the tool boundary is to show for a failure with HTTP status s
SentenceFor(s) ==
    CASE s \in {401, 403} -> "Authentication or permission error accessing BookStack."
      [] s = 404 -> "The requested content was not found in BookStack."
      [] s = 429 -> "Rate limit exceeded. Please try again later."
      [] s >= 500 -> "BookStack server error. Please try again later."
      [] OTHER -> "BookStack request failed."

\* C20: when the client call of a tool fails, the tool handler returns a
\* result flagged isError whose text goes by the HTTP status of the failure:
\* the authentication sentence for 401 and 403, the not-found sentence for
\* 404, the validation text with the remote's detail for 422, the rate-limit
\* sentence for 429, the server-error sentence for 5xx, and a generic text
\* for a failure without status.
C20_ErrorsByStatus ==
    \A c \in Settled :
        calls[c].res.k = "throw" =>
            /\ calls[c].tool.isError
            /\ LET s == calls[c].res.e.status
               IN  IF s = Undefined
                   THEN calls[c].tool.kind \in {"fixed", "message"}
                   ELSE IF s = 422
                   THEN calls[c].tool.kind = "validation"
                   ELSE /\ calls[c].tool.kind = "fixed"
                        /\ calls[c].tool.s = SentenceFor(s)

(* ------------------------------ the server ---------------------------- *)
\* String.prototype.toLowerCase, on the letters the values below are made of
LowerChar(ch) ==
    CASE ch = "T" -> "t" [] ch = "R" -> "r" [] ch = "U" -> "u" [] ch = "E" -> "e"
      [] ch = "F" -> "f" [] ch = "A" -> "a" [] ch = "L" -> "l" [] ch = "S" -> "s"
      [] ch = "Y" -> "y" [] OTHER -> ch

ToLowerCase(chars) == [i \in 1..Len(chars) |-> LowerChar(chars[i])]

\* enableWrite: process.env.BOOKSTACK_ENABLE_WRITE?.toLowerCase() === 'true'
EnableWriteOf(v) == v.defined /\ ToLowerCase(v.chars) = <<"t", "r", "u", "e">>

\* the values the variable is started with
EnvValues ==
    {Unset} \cup
    {EnvVar(TRUE, t) :
       t \in {<<>>, <<"t", "r", "u", "e">>, <<"T", "r", "U", "E">>,
              <<"f", "a", "l", "s", "e">>, <<"t", "r", "u", "e", " ">>}}

\* the tools registered in any case
ReadTools ==
    {"get_capabilities", "search_content", "search_pages", "get_books", "get_book",
     "get_pages", "get_page", "get_chapters", "get_chapter", "export_page",
     "export_book", "export_chapter", "get_recent_changes", "get_shelves",
     "get_shelf", "get_attachments", "get_attachment"}

\* the tools registered inside `if (config.enableWrite) { ... }`
WriteTools ==
    {"create_page", "update_page", "create_shelf", "update_shelf", "delete_shelf",
     "create_attachment", "update_attachment", "delete_attachment"}

\* the client method a tool's handler calls; get_capabilities calls none
ToolMethod(tool) ==
    CASE tool = "get_capabilities"   -> ""
      [] tool = "search_content"     -> "searchContent"
      [] tool = "search_pages"       -> "searchPages"
      [] tool = "get_books"          -> "getBooks"
      [] tool = "get_book"           -> "getBook"
      [] tool = "get_pages"          -> "getPages"
      [] tool = "get_page"           -> "getPage"
      [] tool = "get_chapters"       -> "getChapters"
      [] tool = "get_chapter"        -> "getChapter"
      [] tool = "export_page"        -> "exportPage"
      [] tool = "export_book"        -> "exportBook"
      [] tool = "export_chapter"     -> "exportChapter"
      [] tool = "get_recent_changes" -> "getRecentChanges"
      [] tool = "get_shelves"        -> "getShelves"
      [] tool = "get_shelf"          -> "getShelf"
      [] tool = "get_attachments"    -> "getAttachments"
      [] tool = "get_attachment"     -> "getAttachment"
      [] tool = "create_page"        -> "createPage"
      [] tool = "update_page"        -> "updatePage"
      [] tool = "create_shelf"       -> "createShelf"
      [] tool = "update_shelf"       -> "updateShelf"
      [] tool = "delete_shelf"       -> "deleteShelf"
      [] tool = "create_attachment"  -> "createAttachment"
      [] tool = "update_attachment"  -> "updateAttachment"
      [] tool = "delete_attachment"  -> "deleteAttachment"

\* the tools whose handler calls the client
ClientTools == {tool \in ReadTools \cup WriteTools : ToolMethod(tool) # ""}

\* a server that registers the write tools whatever the configuration says
RegisterAll(enabled) == ReadTools \cup WriteTools

\* main(): the tools registered for a configuration
RegisterTools(enabled) == IF enabled THEN ReadTools \cup WriteTools ELSE ReadTools

\* the server process after main() has built the configuration, the client
\* and the server
InitServer ==
    /\ subject = NoSubject
    /\ derived = NoDerived
    /\ env \in EnvValues
    /\ enableWrite = EnableWriteOf(env)
    /\ server = RegisterTools(enableWrite)
    /\ bookSlugCache = EmptyMap
    /\ pageInfoCache = EmptyMap
    /\ InitRemote
    /\ calls = [c \in CallIds |-> IdleCall]
    /\ timers = {}

\* an MCP client calls a registered tool: its handler calls the client
CallTool(c, tool, id, fmt) ==
    /\ tool \in server
    /\ ToolMethod(tool) # ""
    /\ calls[c] = IdleCall
    /\ \A d \in CallIds : d < c => calls[d] # IdleCall
    /\ Commit(c, StartOp(Machine([NewCall(c, ToolMethod(tool), id, fmt)
                                    EXCEPT !.via = tool]),
                         ToolMethod(tool), id, fmt, TRUE))
    /\ UNCHANGED <<subject, derived, env, server, enableWrite, remoteBooks, remotePages, edits, changed>>

\* The tools of a server process, called one after the other.
NextServer ==
    \/ \E tool \in ClientTools :
          \E id \in IdsOf(ToolMethod(tool)) \cap {0, 1} :
             \E fmt \in FormatsOf(ToolMethod(tool)) \cap {"", "html", "pdf"} :
                CallTool(1, tool, id, fmt)
    \/ \E ck \in Threads : \E res \in Outcomes(calls[ck[1]].th[ck[2]].req) :
          Respond(ck[1], ck[2], res)
    \/ \E ck \in Threads : \E s \in NonBlankSlugs : RespondUpdate(ck[1], ck[2], s)
    \/ \E ck \in Threads : FetchRejects(ck[1], ck[2])
    \/ Return(1)

SpecServer == InitServer /\ [][NextServer]_vars

\* the spellings of 'true' in upper and lower case among the values started with
IsTrueAnyCase(v) ==
    /\ v.defined
    /\ Len(v.chars) = 4
    /\ v.chars[1] \in {"t", "T"} /\ v.chars[2] \in {"r", "R"}
    /\ v.chars[3] \in {"u", "U"} /\ v.chars[4] \in {"e", "E"}

\* C21: the write tools are registered only when BOOKSTACK_ENABLE_WRITE is
\* 'true' in any letter case; when it is unset or has another value, no
\* create, update or delete tool is registered, the client is read-only, and
\* no call made through a tool is one of a mutating client method or sends a
\* request other than GET.
C21_WriteToolsOnlyWhenEnabled ==
    ~IsTrueAnyCase(env) =>
        /\ server \cap WriteTools = {}
        /\ ~enableWrite
        /\ \A c \in Made :
              /\ calls[c].via \in server
              /\ calls[c].op \notin WriteOps
              /\ calls[c].methods \subseteq {"GET"}

C21_Witness ==
    /\ env.defined
    /\ ~IsTrueAnyCase(env)
    /\ \E c \in Settled : calls[c].via \in ReadTools /\ calls[c].fetches > 0

\* the write operations that answer with an enhanced record
EnrichingWriteOps == {op \in WriteOps : OpInfo(op).enrich # "none"}

\* the write operations a client with enableWrite true has carried to the
\* remote, which has accepted them: a 2xx answer, holding the record when the
\* operation creates or updates one
AcceptedWrites ==
    {c \in Settled : /\ enableWrite
                     /\ calls[c].op \in WriteOps
                     /\ calls[c].own # Pending
                     /\ OpInfo(calls[c].op).method # "DELETE" => calls[c].own.v.k = "entity"}

\* the call has returned the record the remote answered with, with an
\* address derived for it
ReturnsEnriched(c) ==
    /\ calls[c].res.k = "ok"
    /\ calls[c].res.v.k = "enriched"
    /\ calls[c].res.v.rec = AsRecord(calls[c].own.v)
    /\ calls[c].res.v.url[1] = BaseUrl

\* a write operation of a client with enableWrite true goes to the remote
\* (an upload, once its file is found)
WritesProceed ==
    \A c \in Settled :
        (/\ enableWrite
         /\ calls[c].op \in WriteOps
         /\ calls[c].res # Throw(FileNotFound)) =>
            /\ calls[c].fetches >= 1
            /\ OpInfo(calls[c].op).method \in calls[c].methods

\* C22: with enableWrite true every write-gated operation (create, update and
\* delete of books, chapters, pages, shelves, attachments and comments) goes
\* to its remote call and, when the remote accepts it, returns the enriched
\* record: the remote's record with its derived address.
C22_WritesReturnEnriched ==
    /\ WritesProceed
    /\ \A c \in AcceptedWrites : ReturnsEnriched(c)

\* C22, amended: with enableWrite true every write-gated operation goes to its
\* remote call; when the remote accepts it, a create or update of a book,
\* chapter, page, shelf or attachment returns the enriched record, while a
\* delete and a create or update of a comment return the remote's answer as
\* it is, with nothing derived.
C22_WritesReturnEnrichedOrRaw ==
    /\ WritesProceed
    /\ \A c \in AcceptedWrites :
          IF calls[c].op \in EnrichingWriteOps
          THEN ReturnsEnriched(c)
          ELSE calls[c].res = calls[c].own

\* an accepted createPage has returned the page with its address, and an
\* accepted deleteBook the remote's empty answer
C22_Witness ==
    /\ enableWrite
    /\ \E c \in AcceptedWrites :
          \/ /\ calls[c].op = "createPage"
             /\ calls[c].res.k = "ok"
             /\ calls[c].res.v.k = "enriched"
             /\ calls[c].res.v.rec.slug = "new"
          \/ /\ calls[c].op = "updateAttachment"
             /\ calls[c].res.k = "ok"
             /\ calls[c].res.v.k = "enriched"

\* the record has been enhanced
Enhanced == derived # NoDerived

\* the length a kind of record has its preview cut at
ThresholdOf(kind) ==
    CASE kind \in {"book", "chapter", "shelf"} -> SummaryLength
      [] kind = "search" -> SearchPreviewLength
      [] kind = "page" -> PagePreviewLength
      [] kind \in {"recentPage", "recentBook"} -> RecentPreviewLength

\* the text a preview is made from: the description of a book, chapter or
\* shelf, the text of a page, the preview a search result came with, and for
\* a recent change the text of the detail when it was fetched, else the
\* preview the search result came with
SourceText(s) ==
    CASE s.kind \in {"book", "chapter", "shelf", "page"} -> s.text
      [] s.kind = "search" -> s.content
      [] s.kind \in {"recentPage", "recentBook"} ->
            IF s.detail /\ s.text.defined THEN s.text
            ELSE IF s.detail /\ s.kind = "recentBook" THEN Absent
            ELSE s.content

\* the preview of a text cut at n
CutAt(chars, n) ==
    IF Len(chars) > n
    THEN [i \in 1..(n + 3) |-> IF i <= n THEN chars[i] ELSE "."]
    ELSE chars

\* C23: every preview field (book, chapter and shelf summary cut at 100,
\* search-result content_preview at 150, page and recent-changes
\* content_preview at 200) is the first threshold characters followed by
\* '...' when the source text is longer than the threshold, and the text
\* itself, with no ellipsis, when it is at or under the threshold.
C23_PreviewTruncation ==
    (Enhanced /\ SourceText(subject).defined) =>
        derived.preview = CutAt(SourceText(subject).chars, ThresholdOf(subject.kind))

\* whitespace: space, newline, tab
IsSpace(ch) == ch \in {" ", "\n", "\t"}

\* the number of whitespace-delimited tokens of a text: the places where a
\* character that is no whitespace starts the text or follows whitespace
Tokens(chars) ==
    Cardinality({i \in 1..Len(chars) :
                    ~IsSpace(chars[i]) /\ (i = 1 \/ IsSpace(chars[i - 1]))})

\* C24: the word_count of an enriched page is the number of
\* whitespace-delimited tokens of the page's text, whatever the text (runs of
\* spaces, newlines, tabs, leading and trailing whitespace included), and 0
\* for an empty or absent text.
C24_WordCount ==
    (Enhanced /\ subject.kind = "page") =>
        derived.word_count =
            IF subject.text.defined THEN Tokens(subject.text.chars) ELSE 0

\* the units of a friendly date, from the finest to the coarsest
Rank(f) ==
    CASE f.unit = "less" -> 0 [] f.unit = "hours" -> 1 [] f.unit = "days" -> 2
      [] f.unit = "weeks" -> 3 [] f.unit = "date" -> 4

\* the friendly date of an age by its bucket
Bucket(age) ==
    LET hour == SecondsPerHour
        day == 24 * hour
        week == 7 * day
    IN  IF age < hour THEN Friendly("less", 0)
        ELSE IF age < day THEN Friendly("hours", age \div hour)
        ELSE IF age < week THEN Friendly("days", age \div day)
        ELSE IF age < 4 * week THEN Friendly("weeks", age \div week)
        ELSE Friendly("date", 0)

\* C25: formatDate goes by the age of the timestamp: under 1 hour it gives
\* the less-than-an-hour text, from 1 to under 24 hours 'N hours ago' with N
\* the whole hours, from 24 hours to under 7 days 'N days ago' with N the
\* whole days, from 7 days to under 4 weeks 'N weeks ago' with N the whole
\* weeks, from 4 weeks on the date itself; and an older timestamp never gets
\* a finer unit than a younger one.
C25_FormatDateBuckets ==
    (Enhanced /\ subject.kind \in {"book", "chapter", "shelf", "page"}) =>
        /\ subject.updated_at # Undefined =>
              derived.last_updated = Bucket(subject.updated_at)
        /\ subject.created_at # Undefined =>
              derived.created = Bucket(subject.created_at)
        /\ (subject.updated_at # Undefined /\ subject.created_at # Undefined) =>
              Rank(derived.created) >= Rank(derived.last_updated)

\* a page created 8 days ago and updated 25 hours ago reads '1 weeks ago' and
\* '1 days ago'
C25_Witness ==
    /\ Enhanced
    /\ subject.kind = "page"
    /\ subject.created_at = 8 * 24 * SecondsPerHour
    /\ subject.updated_at = 25 * SecondsPerHour
    /\ derived.created = Friendly("weeks", 1)
    /\ derived.last_updated = Friendly("days", 1)

\* the fetches of book b that the getBookSlug resolutions of call c have made
BookFetches(c, b) ==
    {i \in DOMAIN calls[c].lookups :
        /\ calls[c].lookups[i].kind = "book"
        /\ calls[c].lookups[i].id = b
        /\ ~calls[c].lookups[i].hit}

\* C26: within one batch of a list enrichment (getPages, getChapters, search
\* results) the book that several elements belong to is fetched at most once,
\* although the lookups of the elements are in flight at the same time: the
\* other elements reuse the result.
C26_ParentFetchedOncePerBatch ==
    \A c \in Made :
        calls[c].op \in {"getPages", "getChapters", "searchContent", "searchPages"} =>
            \A b \in BookIds : Cardinality(BookFetches(c, b)) <= 1

\* the attempt got no response: its fetch was rejected (network error, abort)
NoResponse(a) == a.status = 0

\* C27: only status 429 triggers a retry.  Every attempt of a request that is
\* followed by another attempt was answered 429; any other non-2xx status
\* (500 and 503 included) and any transport failure (a network error, an
\* abort by the timeout, a 2xx body that cannot be parsed) makes the request
\* reject with the fetch it came from, so after exactly one fetch when it is
\* the first outcome; and the error of a transport failure carries no status,
\* while the error of a non-2xx answer carries that status.
C27_Only429Retried ==
    /\ \A ck \in Threads :
          LET h == calls[ck[1]].th[ck[2]].hist
          IN  \A i \in 1..(Len(h) - 1) : h[i].status = 429
    /\ \A ck \in SettledRequests :
          LET h == LastOf(ck).hist
              r == LastOf(ck).res
              a == h[Len(h)]
          IN  /\ \A i \in 1..(Len(h) - 1) : h[i].status = 429
              /\ h[1].status # 429 => Len(h) = 1
              /\ (~NoResponse(a) /\ ~Is2xx(a.status)) =>
                    /\ r.k = "throw"
                    /\ r.e.status = a.status
              /\ NoResponse(a) =>
                    /\ r.k = "throw"
                    /\ r.e.status = Undefined
                    /\ r.e.response.status = Undefined
              /\ (Is2xx(a.status) /\ r.k = "throw") =>
                    /\ r.e.status = Undefined
                    /\ r.e.response.status = Undefined

\* a request has failed on a 503 after one fetch, with status 503
C27_Witness ==
    \E ck \in SettledRequests :
        /\ Len(LastOf(ck).hist) = 1
        /\ calls[ck[1]].fetches = 1
        /\ LastOf(ck).hist[1].status = 503
        /\ LastOf(ck).res.k = "throw"
        /\ LastOf(ck).res.e.status = 503

\* a client constructed with enableWrite false
InitReadOnly == Init /\ enableWrite = FALSE

\* the reads that overlap with the write operations
ReadOnlyOps ==
    WriteOps \cup {"getPage", "getAttachment", "exportBook", "getBooks", "getComments"}

\* Every write operation, and reads, in calls that follow and overlap each
\* other on a client with enableWrite false.
NextReadOnly ==
    \/ \E c \in CallIds : \E op \in ReadOnlyOps : \E id \in IdsOf(op) \cap {0, 1} :
          \E fmt \in FormatsOf(op) \cap {"", "html", "pdf"} : \E fileExists \in BOOLEAN :
             Invoke(c, op, id, fmt, fileExists)
    \/ \E ck \in Threads : \E res \in Outcomes(calls[ck[1]].th[ck[2]].req) :
          Respond(ck[1], ck[2], res)
    \/ \E ck \in Threads : FetchRejects(ck[1], ck[2])
    \/ \E c \in CallIds : Return(c)

SpecReadOnly == InitReadOnly /\ [][NextReadOnly]_vars

\* C28: for a client with enableWrite false, whatever public operations are
\* called, in whatever order and overlap, every request sent to the remote
\* uses GET: no POST, PUT or DELETE request is ever issued.
C28_ReadOnlyClientOnlyGets ==
    ~enableWrite =>
        /\ \A c \in Made : calls[c].methods \subseteq {"GET"}
        /\ \A ck \in Threads :
              calls[ck[1]].th[ck[2]].st = "fetch" =>
                 calls[ck[1]].th[ck[2]].req.method = "GET"

\* a write operation has been refused while a read of the same client had a
\* request in flight
C28_Witness ==
    /\ ~enableWrite
    /\ \E c, d \in Made :
          /\ c # d
          /\ calls[c].op \in WriteOps
          /\ calls[c].res.k = "throw"
          /\ calls[c].fetches = 0
          /\ calls[d].fetches > 0
          /\ calls[d].res = Pending

\* the resolutions a call has logged in this step, as the records
NewLookups ==
    UNION {{calls'[c].lookups[i] :
              i \in {j \in DOMAIN calls'[c].lookups :
                       calls[c] # IdleCall => j > Len(calls[c].lookups)}} :
           c \in {d \in CallIds : calls'[d] # IdleCall}}

\* the entry of id in a cache has been set or changed in this step
Stored(cache, cacheNext, id) ==
    /\ id \in DOMAIN cacheNext
    /\ id \notin DOMAIN cache \/ cacheNext[id] # cache[id]

\* C29: a failed lookup leaves both caches unchanged.  An entry comes into
\* bookSlugCache or pageInfoCache only in a step in which a getBookSlug /
\* getPageInfo fetch of that id has succeeded, and holds the value taken
\* from that fetch; a resolution that failed returns the fallback (the
\* stringified id, bookId 0) and stores nothing, so a step in which lookups
\* only fail leaves the caches as they were, and a lookup is served from the
\* cache only when an entry of the id was there.
C29_FailedLookupNotCached ==
    [][/\ \A id \in DOMAIN bookSlugCache' :
             Stored(bookSlugCache, bookSlugCache', id) =>
                \E l \in NewLookups :
                    /\ l.kind = "book" /\ l.id = id /\ l.ok /\ ~l.hit
                    /\ bookSlugCache'[id] = l.val.slug
       /\ \A id \in DOMAIN pageInfoCache' :
             Stored(pageInfoCache, pageInfoCache', id) =>
                \E l \in NewLookups :
                    /\ l.kind = "page" /\ l.id = id /\ l.ok /\ ~l.hit
                    /\ pageInfoCache'[id] = l.val
       /\ DOMAIN bookSlugCache \subseteq DOMAIN bookSlugCache'
       /\ DOMAIN pageInfoCache \subseteq DOMAIN pageInfoCache'
       /\ (NewLookups # {} /\ \A l \in NewLookups : ~l.ok) =>
             /\ bookSlugCache' = bookSlugCache
             /\ pageInfoCache' = pageInfoCache
       /\ \A l \in NewLookups :
             /\ (~l.ok /\ ~l.raised) => l.val = [slug |-> String(l.id), bookId |-> 0]
             /\ l.hit => IF l.kind = "book" THEN l.id \in DOMAIN bookSlugCache
                         ELSE l.id \in DOMAIN pageInfoCache]_vars

\* a lookup of a book failed in one call, nothing was stored, and the lookup
\* of the same book by the next call fetched it again and stored the slug
C29_Witness ==
    \E c1, c2 \in Lookups :
        /\ ResolvedAgain(c1, c2)
        /\ LookupOf(c1).kind = "book"
        /\ ~LookupOf(c1).ok
        /\ ~LookupOf(c2).hit
        /\ LookupOf(c2).ok
        /\ LookupOf(c2).id \in DOMAIN bookSlugCache

\* C30: when a request() or requestForm() call has settled, by returning or
\* by throwing, a rejected fetch included, the abort timer armed for each of
\* its attempts is no longer pending: every pending abort timer belongs to a
\* fetch that is still in flight.
C30_NoTimerOutlivesItsCall ==
    \A t \in timers : t.live /\ <<t.c, t.k>> \in InFlightFetches

====
